---- MODULE Spec2Model ----
(***************************************************************************)
(* Model of the LLM inference performance calculator                       *)
(* (frontend/src/utils/calculations.ts and the types and input forms that  *)
(* feed it).                                                               *)
(*                                                                         *)
(* JavaScript numbers are modelled as exact rationals (n/d)*2^p2*5^p5      *)
(* with the three special values NaN, +Infinity and -Infinity, and the     *)
(* arithmetic follows IEEE-754 for the special cases (x/0, 0/0, Inf*0,     *)
(* comparisons with NaN).  Rounding of finite doubles and the sign of      *)
(* zero are not modelled: finite arithmetic is exact.                      *)
(***************************************************************************)
EXTENDS Integers, Sequences, FiniteSets, TLC

VARIABLES
    gpu,    \* the GPUSpecs object the caller holds and passes to the engine
    model,  \* the ModelSpecs object the caller holds and passes to the engine
    out,    \* the last call of the engine: function, arguments, returned value
    seen    \* an earlier call of calculatePerformance the caller kept

VARIABLES
    calls,          \* the loads from the Hugging Face Hub, in the order they started
    isLoading,      \* HuggingFaceModelSearch: isLoading
    selectedModel,  \* HuggingFaceModelSearch: selectedModel
    error,          \* HuggingFaceModelSearch: error
    loaded,         \* the presets handed to onModelLoad, each with its call
    reported,       \* the messages handed to onError
    hubModels,      \* useModels: hubModels
    hookError       \* useModels: error

VARIABLES
    searchQuery,    \* HuggingFaceModelSearch: searchQuery
    searchResults,  \* HuggingFaceModelSearch: searchResults
    isSearching,    \* HuggingFaceModelSearch: isSearching
    timers,         \* the timeouts handleSearchInputChange has set and that are due
    searches,       \* the calls of searchModels, in the order they started
    now,            \* the time in milliseconds
    lastChange      \* the time of the last change of the search input

VARIABLES
    selectedGPU,    \* AIModelCalculator: selectedGPU
    modelSpecs,     \* AIModelCalculator: modelSpecs
    results,        \* AIModelCalculator: results
    effectPending,  \* the effect on [selectedGPU, modelSpecs] is due to run
    isCustom,       \* GPUSelector: isCustom
    customGPU,      \* GPUSelector: customGPU
    event           \* the handler that ran last, and its arguments

calcVars == <<gpu, model, out, seen>>

searchVars == <<searchQuery, searchResults, isSearching, timers, searches, now, lastChange>>

appVars == <<selectedGPU, modelSpecs, results, effectPending, isCustom, customGPU, event>>

loadVars == <<calls, isLoading, selectedModel, error, loaded, reported, hubModels, hookError>>

vars == <<calcVars, loadVars, searchVars, appVars>>

----------------------------------------------------------------------------
(* JavaScript numbers *)

Abs(i) == IF i < 0 THEN -i ELSE i

Sign(i) == IF i < 0 THEN -1 ELSE IF i > 0 THEN 1 ELSE 0

RECURSIVE GCD(_, _)
GCD(a, b) == IF b = 0 THEN a ELSE GCD(b, a % b)

NaN == [k |-> "nan", n |-> 0, d |-> 1, p2 |-> 0, p5 |-> 0]

Infinity == [k |-> "inf", n |-> 1, d |-> 1, p2 |-> 0, p5 |-> 0]

NegInfinity == [k |-> "inf", n |-> -1, d |-> 1, p2 |-> 0, p5 |-> 0]

Inf(s) == IF s < 0 THEN NegInfinity ELSE Infinity

RECURSIVE Pow(_, _)
Pow(base, k) == IF k <= 0 THEN 1 ELSE base * Pow(base, k - 1)

\* How often the prime q divides i # 0, and i with those factors removed.
RECURSIVE Multiplicity(_, _)
Multiplicity(i, q) == IF i % q = 0 THEN 1 + Multiplicity(i \div q, q) ELSE 0

RECURSIVE Without(_, _)
Without(i, q) == IF i % q = 0 THEN Without(i \div q, q) ELSE i

\* The finite number (n/d) * 2^p2 * 5^p5, d > 0, in its unique form: n/d in
\* lowest terms, n and d coprime to 10.
Fin(n, d, p2, p5) ==
    IF n = 0 THEN [k |-> "fin", n |-> 0, d |-> 1, p2 |-> 0, p5 |-> 0]
    ELSE LET g  == GCD(Abs(n), d)
             n1 == n \div g
             d1 == d \div g
         IN  [k  |-> "fin",
              n  |-> Without(Without(n1, 2), 5),
              d  |-> Without(Without(d1, 2), 5),
              p2 |-> p2 + Multiplicity(n1, 2) - Multiplicity(d1, 2),
              p5 |-> p5 + Multiplicity(n1, 5) - Multiplicity(d1, 5)]

Num(i) == Fin(i, 1, 0, 0)

\* The decimal literal n * 10^e.
Dec(n, e) == Fin(n, 1, e, e)

Zero == Num(0)

IsNaN(x) == x.k = "nan"

IsInf(x) == x.k = "inf"

IsFinite(x) == x.k = "fin"

IsZero(x) == x.k = "fin" /\ x.n = 0

MinI(a, b) == IF a < b THEN a ELSE b

\* Finite x divided by 2^q2 * 5^q5, as a fraction <<a, b>> with b > 0.
Over(x, q2, q5) ==
    <<x.n * Pow(2, x.p2 - q2) * Pow(5, x.p5 - q5),
      x.d * Pow(2, q2 - x.p2) * Pow(5, q5 - x.p5)>>

\* Products of positive integers that stop at 2^31 - 1, the largest integer
\* the model evaluates: a comparison needs the order of two products, not
\* their values.
TimesUpTo(a, b) == IF a > 2147483647 \div b THEN 2147483647 ELSE a * b

RECURSIVE PowUpTo(_, _)
PowUpTo(base, k) == IF k <= 0 THEN 1 ELSE TimesUpTo(base, PowUpTo(base, k - 1))

\* Sign of x - y for finite x and y.  (No order is defined, and evaluation
\* fails, should both sides reach 2^31 - 1.)
Cmp(x, y) ==
    IF x.n = 0 \/ y.n = 0 \/ Sign(x.n) # Sign(y.n) THEN Sign(Sign(x.n) - Sign(y.n))
    ELSE LET q2 == MinI(x.p2, y.p2)
             q5 == MinI(x.p5, y.p5)
             gn == GCD(Abs(x.n), Abs(y.n))
             gd == GCD(x.d, y.d)
             l  == TimesUpTo(TimesUpTo(Abs(x.n) \div gn, y.d \div gd),
                             TimesUpTo(PowUpTo(2, x.p2 - q2), PowUpTo(5, x.p5 - q5)))
             r  == TimesUpTo(TimesUpTo(Abs(y.n) \div gn, x.d \div gd),
                             TimesUpTo(PowUpTo(2, y.p2 - q2), PowUpTo(5, y.p5 - q5)))
         IN  IF l = 2147483647 /\ r = 2147483647 THEN CHOOSE c \in {} : TRUE
             ELSE Sign(x.n) * Sign(l - r)

Neg(x) == [x EXCEPT !.n = -x.n]

\* For finite operands in their unique form the cross-cancelled product is
\* again in that form.
Mul(x, y) ==
    IF IsNaN(x) \/ IsNaN(y) THEN NaN
    ELSE IF IsInf(x) \/ IsInf(y)
         THEN IF IsZero(x) \/ IsZero(y) THEN NaN ELSE Inf(x.n * y.n)
    ELSE IF x.n = 0 \/ y.n = 0 THEN Zero
    ELSE LET g1 == GCD(Abs(x.n), y.d)
             g2 == GCD(Abs(y.n), x.d)
         IN  [k  |-> "fin",
              n  |-> (x.n \div g1) * (y.n \div g2),
              d  |-> (x.d \div g2) * (y.d \div g1),
              p2 |-> x.p2 + y.p2,
              p5 |-> x.p5 + y.p5]

\* x / y with the IEEE-754 results of a zero divisor.
Div(x, y) ==
    IF IsNaN(x) \/ IsNaN(y) THEN NaN
    ELSE IF IsInf(x) THEN (IF IsInf(y) THEN NaN ELSE Inf(x.n * (IF y.n < 0 THEN -1 ELSE 1)))
    ELSE IF IsInf(y) THEN Zero
    ELSE IF y.n = 0 THEN (IF x.n = 0 THEN NaN ELSE Inf(x.n))
    ELSE Mul(x, [k |-> "fin", n |-> Sign(y.n) * y.d, d |-> Abs(y.n),
                 p2 |-> -y.p2, p5 |-> -y.p5])

Add(x, y) ==
    IF IsNaN(x) \/ IsNaN(y) THEN NaN
    ELSE IF IsInf(x) THEN (IF IsInf(y) /\ x.n # y.n THEN NaN ELSE x)
    ELSE IF IsInf(y) THEN y
    ELSE IF x.n = 0 THEN y
    ELSE IF y.n = 0 THEN x
    ELSE LET q2 == MinI(x.p2, y.p2)
             q5 == MinI(x.p5, y.p5)
             a  == Over(x, q2, q5)
             b  == Over(y, q2, q5)
             g  == GCD(a[2], b[2])
         IN  Fin(a[1] * (b[2] \div g) + b[1] * (a[2] \div g), (a[2] \div g) * b[2], q2, q5)

Sub(x, y) == Add(x, Neg(y))

\* x < y, x > y, x >= y, x === y: all false when an operand is NaN.
Lt(x, y) ==
    IF IsNaN(x) \/ IsNaN(y) THEN FALSE
    ELSE IF IsInf(x) THEN x.n < 0 /\ ~(IsInf(y) /\ y.n < 0)
    ELSE IF IsInf(y) THEN y.n > 0
    ELSE Cmp(x, y) < 0

Gt(x, y) == Lt(y, x)

StrictEq(x, y) ==
    IF IsNaN(x) \/ IsNaN(y) THEN FALSE
    ELSE IF IsInf(x) \/ IsInf(y) THEN x = y
    ELSE Cmp(x, y) = 0

Ge(x, y) == Gt(x, y) \/ StrictEq(x, y)

Le(x, y) == Lt(x, y) \/ StrictEq(x, y)

MathMax(x, y) == IF IsNaN(x) \/ IsNaN(y) THEN NaN ELSE IF Lt(x, y) THEN y ELSE x

MathMin(x, y) == IF IsNaN(x) \/ IsNaN(y) THEN NaN ELSE IF Lt(y, x) THEN y ELSE x

\* Finite x as a fraction <<a, b>> with b > 0.
AsFraction(x) == Over(x, 0, 0)

\* Largest r in lo..hi-1 with r*r <= m, given lo*lo <= m and m < hi*hi.
RECURSIVE ISqrtIn(_, _, _)
ISqrtIn(m, lo, hi) ==
    IF hi - lo <= 1 THEN lo
    ELSE LET mid == (lo + hi) \div 2
         IN  IF mid * mid <= m THEN ISqrtIn(m, mid, hi) ELSE ISqrtIn(m, lo, mid)

\* 46341 * 46341 exceeds every integer the model evaluates.
ISqrt(m) == ISqrtIn(m, 0, 46341)

\* Math.round(Math.sqrt(x)) for finite x >= 0: the integer nearest to the
\* real square root (ties cannot occur for rational x).
RoundSqrt(x) ==
    LET f   == AsFraction(x)
        fl  == f[1] \div f[2]
        rem == f[1] % f[2]
        r   == ISqrt(fl)
    IN  IF fl < r * r + r \/ (fl = r * r + r /\ 4 * rem < f[2]) THEN r ELSE r + 1

\* Number.prototype.toFixed(1): the value rounded to one decimal, half up
\* in magnitude; "NaN" and "Infinity" print as themselves.
ToFixed1(x) ==
    IF ~IsFinite(x) THEN x
    ELSE LET f   == AsFraction(Mul(x, Num(10)))
             a   == Abs(f[1])
             fl  == a \div f[2]
             rem == a % f[2]
             t   == IF 2 * rem >= f[2] THEN fl + 1 ELSE fl
         IN  Dec(Sign(f[1]) * t, -1)

AllFinite(xs) == \A i \in DOMAIN xs : IsFinite(xs[i])

----------------------------------------------------------------------------
(* types/calculator.ts *)

Giga == Dec(1, 9)

Tera == Dec(1, 12)

\* 1024 ** 3
GiB == Fin(1, 1, 30, 0)

QUANTIZATION_OPTIONS ==
    << [name |-> "FP32", bytesPerParameter |-> Num(4), computeMultiplier |-> Dec(5, -1)],
       [name |-> "FP16", bytesPerParameter |-> Num(2), computeMultiplier |-> Num(1)],
       [name |-> "INT8", bytesPerParameter |-> Num(1), computeMultiplier |-> Num(2)],
       [name |-> "INT4", bytesPerParameter |-> Dec(5, -1), computeMultiplier |-> Num(4)] >>

\* The value of a quantization field that is absent (undefined).
Missing == "<undefined>"

----------------------------------------------------------------------------
(* utils/calculations.ts *)

\* Array.prototype.find: the first element of xs whose name is nm, or the
\* empty sequence for undefined.
RECURSIVE FindByName(_, _, _)
FindByName(xs, nm, i) ==
    IF i > Len(xs) THEN <<>>
    ELSE IF xs[i].name = nm THEN <<xs[i]>>
    ELSE FindByName(xs, nm, i + 1)

\* getQuantizationInfo falling back to the first row (FP32).
getQuantizationInfo_DefaultFirst(quantization) ==
    LET found == FindByName(QUANTIZATION_OPTIONS, quantization, 1)
    IN  IF found # <<>> THEN found[1] ELSE QUANTIZATION_OPTIONS[1]

getQuantizationInfo(quantization) ==
    LET found == FindByName(QUANTIZATION_OPTIONS, quantization, 1)
    IN  IF found # <<>> THEN found[1] ELSE QUANTIZATION_OPTIONS[2]

\* calculateModelSizeBytes counting FP16 bytes for every quantization.
calculateModelSizeBytes_AlwaysFP16(m) ==
    Mul(Mul(m.parameters, Giga), QUANTIZATION_OPTIONS[2].bytesPerParameter)

calculateModelSizeBytes(m) ==
    LET quantInfo == getQuantizationInfo(m.quantization)
    IN  Mul(Mul(m.parameters, Giga), quantInfo.bytesPerParameter)

\* calculateOpsToByteRatio dividing TFLOPS by GB/s without converting units.
calculateOpsToByteRatio_SameUnits(g) ==
    Div(g.computeBandwidth, g.memoryBandwidth)

calculateOpsToByteRatio(g) ==
    LET computeFlops == Mul(g.computeBandwidth, Tera)
        memoryBytesPerSecond == Mul(g.memoryBandwidth, Giga)
    IN  Div(computeFlops, memoryBytesPerSecond)

\* estimateModelDimension with exclusive upper bounds (< in place of <=).
estimateModelDimension_Exclusive(parameters) ==
    IF Lt(parameters, Num(1)) THEN Num(2048)
    ELSE IF Lt(parameters, Num(3)) THEN Num(3072)
    ELSE IF Lt(parameters, Num(7)) THEN Num(4096)
    ELSE IF Lt(parameters, Num(13)) THEN Num(5120)
    ELSE IF Lt(parameters, Num(30)) THEN Num(6656)
    ELSE IF Lt(parameters, Num(65)) THEN Num(8192)
    ELSE Num(RoundSqrt(Mul(Num(8192 * 8192), Div(parameters, Num(65)))))

estimateModelDimension(parameters) ==
    IF Le(parameters, Num(1)) THEN Num(2048)
    ELSE IF Le(parameters, Num(3)) THEN Num(3072)
    ELSE IF Le(parameters, Num(7)) THEN Num(4096)
    ELSE IF Le(parameters, Num(13)) THEN Num(5120)
    ELSE IF Le(parameters, Num(30)) THEN Num(6656)
    ELSE IF Le(parameters, Num(65)) THEN Num(8192)
    ELSE Num(RoundSqrt(Mul(Num(8192 * 8192), Div(parameters, Num(65)))))

\* calculateArithmeticIntensity without the batching effect.
calculateArithmeticIntensity_Unbatched(m) ==
    LET d == estimateModelDimension(m.parameters)
        N == m.sequenceLength
        quantInfo == getQuantizationInfo(m.quantization)
        totalMemoryMovement ==
            Div(Mul(Add(Mul(Mul(Num(8), N), N), Mul(Mul(Num(8), N), d)),
                    quantInfo.bytesPerParameter), Num(2))
        totalCompute == Add(Mul(Mul(Mul(Num(4), N), N), d), Mul(Mul(Num(3), N), N))
    IN  MathMax(Dec(1, -1), Div(totalCompute, totalMemoryMovement))

calculateArithmeticIntensity(m) ==
    LET d == estimateModelDimension(m.parameters)
        N == m.sequenceLength
        quantInfo == getQuantizationInfo(m.quantization)
        totalMemoryMovement ==
            Div(Mul(Add(Mul(Mul(Num(8), N), N), Mul(Mul(Num(8), N), d)),
                    quantInfo.bytesPerParameter), Num(2))
        totalCompute == Add(Mul(Mul(Mul(Num(4), N), N), d), Mul(Mul(Num(3), N), N))
        arithmeticIntensity == Mul(Div(totalCompute, totalMemoryMovement), m.batchSize)
    IN  MathMax(Dec(1, -1), arithmeticIntensity)

\* calculatePrefillTime ignoring the compute multiplier of the quantization.
calculatePrefillTime_NoMultiplier(g, m) ==
    LET totalFlops == Mul(Mul(m.promptTokens, Mul(m.parameters, Giga)), Num(2))
        effectiveComputeFlops == Mul(g.computeBandwidth, Tera)
    IN  Mul(Div(totalFlops, effectiveComputeFlops), Num(1000))

calculatePrefillTime(g, m) ==
    LET quantInfo == getQuantizationInfo(m.quantization)
        totalFlops == Mul(Mul(m.promptTokens, Mul(m.parameters, Giga)), Num(2))
        effectiveComputeFlops ==
            Mul(Mul(g.computeBandwidth, Tera), quantInfo.computeMultiplier)
    IN  Mul(Div(totalFlops, effectiveComputeFlops), Num(1000))

\* calculateTimePerToken multiplying by the memory bandwidth.
calculateTimePerToken_TimesBandwidth(g, m) ==
    LET modelSizeBytes == calculateModelSizeBytes(m)
    IN  Mul(Mul(modelSizeBytes, g.memoryBandwidth), Dec(1, -6))

calculateTimePerToken(g, m) ==
    LET modelSizeBytes == calculateModelSizeBytes(m)
        memoryBytesPerSecond == Mul(g.memoryBandwidth, Giga)
    IN  Mul(Div(modelSizeBytes, memoryBytesPerSecond), Num(1000))

calculateTotalGenerationTime(prefillTime, timePerToken, outputTokens) ==
    Add(prefillTime, Mul(timePerToken, outputTokens))

\* calculateThroughput without the test of totalTime === 0.
calculateThroughput_Unguarded(totalTime, totalTokens) ==
    Mul(Div(totalTokens, totalTime), Num(1000))

calculateThroughput(totalTime, totalTokens) ==
    IF StrictEq(totalTime, Zero) THEN Zero
    ELSE Mul(Div(totalTokens, totalTime), Num(1000))

determineBottleneck(opsToByteRatio, arithmeticIntensity) ==
    [isMemoryBound  |-> Lt(arithmeticIntensity, opsToByteRatio),
     isComputeBound |-> Ge(arithmeticIntensity, opsToByteRatio)]

\* The text of memoryWarningMessage, by its template and the values printed
\* into it; the empty sequence is undefined (no message).
NoMessage == <<>>

ShortfallMessage(totalMemoryWithKV, gpuMemoryGB, shortfall) ==
    <<"Model requires", ToFixed1(totalMemoryWithKV), gpuMemoryGB, ToFixed1(shortfall)>>

HighUsageMessage(memoryUtilization) ==
    <<"High memory usage", ToFixed1(memoryUtilization)>>

ModerateUsageMessage(memoryUtilization) ==
    <<"Moderate memory usage", ToFixed1(memoryUtilization)>>

\* The KV cache estimate of a single sequence, whatever the batch size.
kvCacheGB_SingleSequence(m) ==
    Div(Mul(Mul(Mul(m.sequenceLength, m.parameters), Num(2)), Num(2)), GiB)

kvCacheGB(m) ==
    Div(Mul(Mul(Mul(Mul(m.sequenceLength, m.batchSize), m.parameters), Num(2)), Num(2)),
        GiB)

totalMemoryWithKV(m) ==
    LET modelSizeGB == Div(calculateModelSizeBytes(m), GiB)
        memoryOverheadMultiplier == Dec(12, -1)
        totalMemoryNeeded == Mul(modelSizeGB, memoryOverheadMultiplier)
    IN  Add(totalMemoryNeeded, kvCacheGB(m))

\* (totalMemoryWithKV / gpuMemoryGB) * 100, before the display cap.
memoryUtilization(g, m) == Mul(Div(totalMemoryWithKV(m), g.memorySize), Num(100))

\* The warning rules with the moderate-usage rule tried before the others.
memoryWarning_ModerateFirst(total, gpuMemoryGB, utilization) ==
    IF Gt(utilization, Num(80)) THEN ModerateUsageMessage(utilization)
    ELSE IF Gt(utilization, Num(90)) THEN HighUsageMessage(utilization)
    ELSE IF Gt(total, gpuMemoryGB)
        THEN ShortfallMessage(total, gpuMemoryGB, Sub(total, gpuMemoryGB))
    ELSE NoMessage

\* The warning rules with inclusive thresholds (>= in place of >).
memoryWarning_Inclusive(total, gpuMemoryGB, utilization) ==
    IF Ge(total, gpuMemoryGB)
        THEN ShortfallMessage(total, gpuMemoryGB, Sub(total, gpuMemoryGB))
    ELSE IF Ge(utilization, Num(90)) THEN HighUsageMessage(utilization)
    ELSE IF Ge(utilization, Num(80)) THEN ModerateUsageMessage(utilization)
    ELSE NoMessage

\* The if / else if chain of checkMemoryFit: the message it assigns, and
\* NoMessage where it assigns none (hasMemoryWarning is set to true together
\* with each message).
memoryWarning(total, gpuMemoryGB, utilization) ==
    IF Gt(total, gpuMemoryGB)
        THEN ShortfallMessage(total, gpuMemoryGB, Sub(total, gpuMemoryGB))
    ELSE IF Gt(utilization, Num(90)) THEN HighUsageMessage(utilization)
    ELSE IF Gt(utilization, Num(80)) THEN ModerateUsageMessage(utilization)
    ELSE NoMessage

\* The object checkMemoryFit returns, without the cap of memoryUtilization.
memoryCheckResult_Uncapped(modelSizeGB, utilization, message) ==
    [modelSizeGB          |-> modelSizeGB,
     memoryUtilization    |-> utilization,
     hasMemoryWarning     |-> message # NoMessage,
     memoryWarningMessage |-> message]

\* The object checkMemoryFit returns.
memoryCheckResult(modelSizeGB, utilization, message) ==
    [modelSizeGB          |-> modelSizeGB,
     memoryUtilization    |-> MathMin(utilization, Num(999)),
     hasMemoryWarning     |-> message # NoMessage,
     memoryWarningMessage |-> message]

checkMemoryFit(g, m) ==
    memoryCheckResult(Div(calculateModelSizeBytes(m), GiB),
                      memoryUtilization(g, m),
                      memoryWarning(totalMemoryWithKV(m), g.memorySize, memoryUtilization(g, m)))

\* The object calculatePerformance returns.
performanceResult(opsToByteRatio, arithmeticIntensity, bottleneck, memoryCheck, prefillTime, timePerToken, totalGenerationTime, throughputTokensPerSecond) ==
    [opsToByteRatio            |-> opsToByteRatio,
     arithmeticIntensity       |-> arithmeticIntensity,
     isMemoryBound             |-> bottleneck.isMemoryBound,
     isComputeBound            |-> bottleneck.isComputeBound,
     prefillTime               |-> prefillTime,
     timePerToken              |-> timePerToken,
     totalGenerationTime       |-> totalGenerationTime,
     throughputTokensPerSecond |-> throughputTokensPerSecond,
     modelSizeGB               |-> memoryCheck.modelSizeGB,
     memoryUtilization         |-> memoryCheck.memoryUtilization,
     hasMemoryWarning          |-> memoryCheck.hasMemoryWarning,
     memoryWarningMessage      |-> memoryCheck.memoryWarningMessage]

\* Lines 198-212 of calculatePerformance, each constant passed on by name.
performanceFrom(opsToByteRatio, arithmeticIntensity, memoryCheck, prefillTime, timePerToken, outputTokens, totalTokens) ==
    performanceResult(
        opsToByteRatio, arithmeticIntensity,
        determineBottleneck(opsToByteRatio, arithmeticIntensity),
        memoryCheck, prefillTime, timePerToken,
        calculateTotalGenerationTime(prefillTime, timePerToken, outputTokens),
        calculateThroughput(
            calculateTotalGenerationTime(prefillTime, timePerToken, outputTokens),
            totalTokens))

\* calculatePerformance counting the output tokens only in the throughput.
calculatePerformance_OutputOnly(g, m) ==
    performanceFrom(calculateOpsToByteRatio(g), calculateArithmeticIntensity(m),
                    checkMemoryFit(g, m), calculatePrefillTime(g, m),
                    calculateTimePerToken(g, m), m.outputTokens,
                    m.outputTokens)

calculatePerformance(g, m) ==
    performanceFrom(calculateOpsToByteRatio(g), calculateArithmeticIntensity(m),
                    checkMemoryFit(g, m), calculatePrefillTime(g, m),
                    calculateTimePerToken(g, m), m.outputTokens,
                    Add(m.promptTokens, m.outputTokens))

----------------------------------------------------------------------------
(* The values the callers can supply *)

\* Sequence lengths are 0 or whole context blocks of 2048 tokens.
MaxContextBlocks == 1

MaxBatchSize == 2

GPU(c, b, s) ==
    [name |-> "Custom GPU", computeBandwidth |-> c, memoryBandwidth |-> b, memorySize |-> s]

\* The custom GPU fields store parseFloat(text) || 0: a number or 0.
ComputeBandwidthValues == {Num(0), Num(65), Num(125)}

MemoryBandwidthValues == {Num(0), Num(300), Num(600)}

MemorySizeValues == {Num(0), Num(10)}

GPUInputs ==
    {GPU(c, b, s) : c \in ComputeBandwidthValues, b \in MemoryBandwidthValues,
                    s \in MemorySizeValues}

Model(p, N, b, pt, ot, q) ==
    [parameters |-> p, sequenceLength |-> N, batchSize |-> b, promptTokens |-> pt,
     outputTokens |-> ot, quantization |-> q]

QuantizationNames == {QUANTIZATION_OPTIONS[i].name : i \in DOMAIN QUANTIZATION_OPTIONS}

\* The quantization field: a known name, an unknown one, the empty string,
\* or no value at all.
QuantizationValues == QuantizationNames \cup {"bogus", "", Missing}

\* Prompt and output token counts: none, a prompt alone, a prompt and an
\* answer.
TokenCounts == {<<Num(0), Num(0)>>, <<Num(350), Num(0)>>, <<Num(350), Num(150)>>}

\* The model form stores parseFloat(text) || 0 in parameters, parseInt(text) || 0
\* in sequenceLength, promptTokens and outputTokens, parseInt(text) || 1 in
\* batchSize.
FormModels ==
    {Model(p, Num(N), Num(b), t[1], t[2], q) :
        p \in {Num(0), Num(7), Num(70)},
        N \in {2048 * i : i \in 0..MaxContextBlocks},
        b \in 1..MaxBatchSize,
        t \in TokenCounts,
        q \in QuantizationValues}

\* INT8 models of 64/9, 8, 76/9 and 80/9 billion parameters at sequence length
\* 256 and batch size 7773: their total memory need is exactly 8, 9, 9.5 and
\* 10 GB.
ThresholdModels ==
    {Model(Fin(p, 9, 0, 0), Num(256), Num(7773), Num(350), Num(150), "INT8") :
        p \in {64, 72, 76, 80}}

ModelInputs == FormModels \cup ThresholdModels

\* The system-overhead configuration the caller holds at a call: the default
\* (80%, 80%) or full efficiency (100%, 100%), the one of no adjustment.
DEFAULT_SYSTEM_OVERHEAD ==
    [prefillEfficiencyPercent |-> Num(80), decodeEfficiencyPercent |-> Num(80)]

FullEfficiency ==
    [prefillEfficiencyPercent |-> Num(100), decodeEfficiencyPercent |-> Num(100)]

OverheadInputs == {DEFAULT_SYSTEM_OVERHEAD, FullEfficiency}

----------------------------------------------------------------------------
(* AIModelCalculator with its GPUSelector and ModelInputs *)

\* The first entries of COMMON_GPUS (types/calculator.ts 32-63).
COMMON_GPUS ==
    <<[name |-> "NVIDIA T4", computeBandwidth |-> Num(65), memoryBandwidth |-> Num(300),
       memorySize |-> Num(16)],
      [name |-> "NVIDIA A10", computeBandwidth |-> Num(125), memoryBandwidth |-> Num(600),
       memorySize |-> Num(24)],
      [name |-> "NVIDIA A100 SXM 80GB", computeBandwidth |-> Num(312),
       memoryBandwidth |-> Num(2039), memorySize |-> Num(80)]>>

\* A preset of ModelInputs.
CommonModel(name, parameters, sequenceLength, headDimension, nLayers, nHeads) ==
    [name |-> name, parameters |-> Num(parameters), sequenceLength |-> Num(sequenceLength),
     headDimension |-> Num(headDimension), nLayers |-> Num(nLayers), nHeads |-> Num(nHeads)]

COMMON_MODELS ==
    <<CommonModel("Llama 2 7B", 7, 4096, 128, 32, 32),
      CommonModel("Llama 2 13B", 13, 4096, 128, 40, 40),
      CommonModel("Llama 2 70B", 70, 4096, 128, 64, 80),
      CommonModel("Granite 3.3 2B", 2, 131072, 64, 40, 32),
      CommonModel("Granite 3.3 8B", 8, 131072, 128, 40, 32),
      CommonModel("Custom", 0, 2048, 128, 32, 32)>>

DEFAULT_MODEL ==
    [parameters |-> Num(7), sequenceLength |-> Num(4096), batchSize |-> Num(1),
     promptTokens |-> Num(350), outputTokens |-> Num(150), quantization |-> "FP16",
     headDimension |-> Num(128), nLayers |-> Num(32), nHeads |-> Num(32)]

\* useState<CalculationResults | null>(null)
NoResults == [fn |-> "none"]

\* The useState values of AIModelCalculator (51-53) and of GPUSelector
\* (105-106) at mount; the effect of line 61 is due after the first render.
CalculatorMounted ==
    /\ selectedGPU = COMMON_GPUS[2]
    /\ modelSpecs = DEFAULT_MODEL
    /\ results = NoResults
    /\ effectPending = TRUE
    /\ isCustom = FALSE
    /\ customGPU = COMMON_GPUS[2]
    /\ event = [handler |-> "mount"]

----------------------------------------------------------------------------
(* The engine and its caller *)

\* No call yet.
Null == [fn |-> "none"]

\* The caller holds no system-overhead configuration.
NoOverhead == <<>>

\* A call of fn on the caller's gpu and model, and the value it returned.
Call(fn, val) ==
    [fn |-> fn, gpu |-> gpu, model |-> model, overhead |-> NoOverhead, val |-> val]

\* calculatePerformance(gpu, model) called with a system-overhead
\* configuration as a third argument: the function has two parameters, so
\* the configuration does not reach the computation.
evaluate(g, m, overhead) == calculatePerformance(g, m)

\* The useState values of the search box of HuggingFaceModelSearch (39-41),
\* with no timeout set and no search started, at time 0. The content of the
\* input is a string of characters.
NothingSearched ==
    /\ searchQuery = <<>>
    /\ searchResults = <<>>
    /\ isSearching = FALSE
    /\ timers = <<>>
    /\ searches = <<>>
    /\ now = 0
    /\ lastChange = 0

\* The useState values of HuggingFaceModelSearch (39-44) and of useModels
\* (36-37) before any load.
NothingLoaded ==
    /\ calls = <<>>
    /\ isLoading = FALSE
    /\ selectedModel = ""
    /\ error = ""
    /\ loaded = <<>>
    /\ reported = <<>>
    /\ hubModels = <<>>
    /\ hookError = "null"

Init ==
    /\ gpu \in GPUInputs
    /\ model \in ModelInputs
    /\ out = Null
    /\ seen = Null
    /\ NothingLoaded
    /\ NothingSearched
    /\ CalculatorMounted

\* CalculatePerformance reading what an earlier call left behind: once a
\* result was kept, a call reports no throughput.
CalculatePerformance_Stateful ==
    /\ \E overhead \in OverheadInputs :
          out' = [Call("calculatePerformance",
                       IF seen = Null THEN evaluate(gpu, model, overhead)
                       ELSE [evaluate(gpu, model, overhead)
                                EXCEPT !.throughputTokensPerSecond = Zero])
                    EXCEPT !.overhead = overhead]
    /\ UNCHANGED <<gpu, model, seen, loadVars, searchVars, appVars>>

CalculatePerformance ==
    /\ \E overhead \in OverheadInputs :
          out' = [Call("calculatePerformance", evaluate(gpu, model, overhead))
                    EXCEPT !.overhead = overhead]
    /\ UNCHANGED <<gpu, model, seen, loadVars, searchVars, appVars>>

GetQuantizationInfo ==
    /\ out' = Call("getQuantizationInfo", getQuantizationInfo(model.quantization))
    /\ UNCHANGED <<gpu, model, seen, loadVars, searchVars, appVars>>

\* A behaviour of Spec is one call of the engine on the inputs Init drew.
CalculatePerformanceOnce == out = Null /\ CalculatePerformance

GetQuantizationInfoOnce == out = Null /\ GetQuantizationInfo

Next == CalculatePerformanceOnce \/ GetQuantizationInfoOnce

Spec == Init /\ [][Next]_vars

----------------------------------------------------------------------------
(* Repeated calls: the caller changes its inputs between calls and keeps
   results *)

RepeatGPUs == {GPU(c, Num(300), Num(10)) : c \in {Num(0), Num(65)}}

RepeatModels ==
    {Model(Num(7), Num(N), Num(1), Num(350), Num(150), q) :
        N \in {0, 2048}, q \in {"FP16", "INT4"}}

InitRepeated ==
    /\ gpu \in RepeatGPUs
    /\ model \in RepeatModels
    /\ out = Null
    /\ seen = Null
    /\ NothingLoaded
    /\ NothingSearched
    /\ CalculatorMounted

\* setSelectedGPU / setModelSpecs: the caller replaces its inputs.
SetInputs ==
    /\ \E g \in RepeatGPUs, m \in RepeatModels : gpu' = g /\ model' = m
    /\ UNCHANGED <<out, seen, loadVars, searchVars, appVars>>

\* setResults: the caller keeps the result of the call.
KeepResult ==
    /\ out.fn = "calculatePerformance"
    /\ seen' = out
    /\ UNCHANGED <<gpu, model, out, loadVars, searchVars, appVars>>

NextRepeated == SetInputs \/ CalculatePerformance \/ KeepResult

SpecRepeated == InitRepeated /\ [][NextRepeated]_vars

----------------------------------------------------------------------------
(* The hidden dimension: calls of estimateModelDimension and of its caller
   on parameter counts at and around the steps of the rule *)

\* Parameter counts in billions: 0, 0.5, 1, 1.5, 3, 3.5, 7, 7.5, 13, 13.5, 30,
\* 30.5, 65, 70, 78, 130, 260.
ParameterValues ==
    {Fin(n, 2, 0, 0) :
        n \in {0, 1, 2, 3, 6, 7, 14, 15, 26, 27, 60, 61, 130, 140, 156, 260, 520}}

DimensionModels ==
    {Model(p, Num(2048), Num(b), Num(350), Num(150), "FP16") :
        p \in ParameterValues, b \in 1..MaxBatchSize}

InitDimension ==
    /\ gpu \in RepeatGPUs
    /\ model \in DimensionModels
    /\ out = Null
    /\ seen = Null
    /\ NothingLoaded
    /\ NothingSearched
    /\ CalculatorMounted

EstimateModelDimension ==
    /\ out' = Call("estimateModelDimension", estimateModelDimension(model.parameters))
    /\ UNCHANGED <<gpu, model, seen, loadVars, searchVars, appVars>>

CalculateArithmeticIntensity ==
    /\ out' = Call("calculateArithmeticIntensity", calculateArithmeticIntensity(model))
    /\ UNCHANGED <<gpu, model, seen, loadVars, searchVars, appVars>>

NextDimension == EstimateModelDimension \/ CalculateArithmeticIntensity

SpecDimension == InitDimension /\ [][NextDimension]_vars

----------------------------------------------------------------------------
(* utils/huggingface.ts: model configurations from the Hugging Face Hub *)

\* A property that is absent from a configuration reads as undefined.
Undefined == [k |-> "undefined"]

\* A string that is not the text of a number.
Str(s) == [k |-> "str", s |-> s]

\* ToNumber, as the operators * and / apply it to their operands.
ToNumber(v) == IF v.k \in {"str", "undefined"} THEN NaN ELSE v

\* ToBoolean: undefined, 0 and NaN are falsy, a non-empty string is truthy.
Truthy(v) ==
    \/ v.k \in {"str", "inf"}
    \/ v.k = "fin" /\ v.n # 0

\* a || b
OrElse(a, b) == IF Truthy(a) THEN a ELSE b

\* The default of a destructured property applies to undefined only.
DefaultTo(v, d) == IF v.k = "undefined" THEN d ELSE v

\* a * b
Times(a, b) == Mul(ToNumber(a), ToNumber(b))

\* a + b: a string operand makes it a concatenation, whose result is again a
\* string that is not the text of a number.
Plus(a, b) ==
    IF a.k = "str" \/ b.k = "str" THEN Str("concatenated") ELSE Add(ToNumber(a), ToNumber(b))

\* The sum of the four terms of total_params, from the values the
\* destructuring produced.
totalParams(hidden_size, intermediate_size, num_hidden_layers, vocab_size) ==
    Plus(Plus(Plus(Times(vocab_size, hidden_size),
                   Times(num_hidden_layers,
                         Plus(Times(Times(Num(4), hidden_size), hidden_size), hidden_size))),
              Times(num_hidden_layers,
                    Plus(Times(Times(hidden_size, intermediate_size), Num(2)), hidden_size))),
         hidden_size)

estimateParameters(config) ==
    Div(ToNumber(totalParams(DefaultTo(config.hidden_size, Num(4096)),
                             DefaultTo(config.intermediate_size, Num(11008)),
                             DefaultTo(config.num_hidden_layers, Num(32)),
                             DefaultTo(config.vocab_size, Num(32000)))),
        Dec(1, 9))

getDefaultQuantization(parametersBillions) ==
    IF Lt(parametersBillions, Num(3)) THEN "FP16"
    ELSE IF Lt(parametersBillions, Num(15)) THEN "FP16"
    ELSE IF Lt(parametersBillions, Num(50)) THEN "INT8"
    ELSE "INT8"

\* The preset of configToModelPreset, from its constants.
modelPreset(modelId, parameters, sequenceLength, headDimension, nLayers, nHeads) ==
    [name                |-> modelId,
     parameters          |-> parameters,
     sequenceLength      |-> sequenceLength,
     headDimension       |-> headDimension,
     nLayers             |-> nLayers,
     nHeads              |-> nHeads,
     defaultQuantization |-> getDefaultQuantization(parameters)]

configToModelPreset(modelId, config) ==
    modelPreset(modelId,
                estimateParameters(config),
                OrElse(config.max_position_embeddings, Num(4096)),
                IF Truthy(config.hidden_size) /\ Truthy(config.num_attention_heads)
                THEN Div(ToNumber(config.hidden_size), ToNumber(config.num_attention_heads))
                ELSE Num(128),
                OrElse(config.num_hidden_layers, Num(32)),
                OrElse(config.num_attention_heads, Num(32)))

\* A configuration object: the properties the conversion reads.
Config(hidden_size, intermediate_size, max_position_embeddings, num_attention_heads, num_hidden_layers, vocab_size) ==
    [hidden_size             |-> hidden_size,
     intermediate_size       |-> intermediate_size,
     max_position_embeddings |-> max_position_embeddings,
     num_attention_heads     |-> num_attention_heads,
     num_hidden_layers       |-> num_hidden_layers,
     vocab_size              |-> vocab_size]

\* {}: every property absent.
EmptyConfig == Config(Undefined, Undefined, Undefined, Undefined, Undefined, Undefined)

\* The config.json of a Llama 2 7B.
LlamaConfig == Config(Num(4096), Num(11008), Num(4096), Num(32), Num(32), Num(32000))

----------------------------------------------------------------------------
(* Loads from the Hub: loadModelFromHub under its two callers,
   HuggingFaceModelSearch.handleLoadModel and useModels.addModelFromHub *)

\* The number of loads a behaviour starts.
MaxLoads == 2

\* Two of the POPULAR_MODELS.
ModelIds == {"meta-llama/Llama-3.2-1B", "Qwen/Qwen2.5-7B"}

\* The config.json the Hub holds for a model.
ConfigOf(modelId) == IF modelId = "meta-llama/Llama-3.2-1B" THEN LlamaConfig ELSE EmptyConfig

\* How a fetch of config.json settles: a 2xx response whose body is the
\* configuration, the JSON text null or no JSON at all, a non-2xx response,
\* or a rejection (the network is down).
NoResponse == [kind |-> "none"]

FetchOutcomes(modelId) ==
    {[kind |-> "response", ok |-> TRUE, statusText |-> "OK", body |-> b] :
        b \in {[json |-> "object", value |-> ConfigOf(modelId)],
               [json |-> "null", value |-> Undefined],
               [json |-> "invalid", value |-> Undefined]}}
        \cup {[kind |-> "response", ok |-> FALSE, statusText |-> "Not Found",
               body |-> [json |-> "invalid", value |-> Undefined]],
              [kind |-> "rejection", ok |-> FALSE, statusText |-> "",
               body |-> [json |-> "invalid", value |-> Undefined]]}

\* An Error object: its name and its message, the message as its fixed text
\* and the values interpolated into it.
ErrorOf(name, message) == [name |-> name, message |-> message]

\* new Error(`Failed to load configuration for model ${modelId}`)
LoadConfigurationError(modelId) ==
    ErrorOf("Error", <<"Failed to load configuration for model", modelId>>)

\* The TypeError of destructuring null in estimateParameters.
DestructureError ==
    ErrorOf("TypeError", <<"Cannot destructure property 'hidden_size' of 'config' as it is null">>)

\* How the promise of a load stands.
Pending == [state |-> "pending"]

Fulfilled(value) == [state |-> "fulfilled", value |-> value]

Rejected(reason) == [state |-> "rejected", reason |-> reason]

\* A load that has issued its fetch and awaits it.
Started(caller, modelId) ==
    [caller |-> caller, modelId |-> modelId, pc |-> "fetch", fetches |-> 1,
     response |-> NoResponse, outcome |-> Pending, settled |-> 0]

\* loadModelConfig fetching a second time when the first fetch failed.
loadModelConfig_fetched_Retry(call, response) ==
    IF response.kind = "rejection" \/ ~response.ok
    THEN IF call.fetches < 2
         THEN [call EXCEPT !.fetches = 2]
         ELSE [call EXCEPT !.pc = "done", !.response = response,
                           !.outcome = Rejected(LoadConfigurationError(call.modelId))]
    ELSE [call EXCEPT !.pc = "json", !.response = response]

\* loadModelConfig when its fetch settles (102-113): a rejection or a
\* non-2xx response is thrown, caught and thrown again as the configuration
\* error; a 2xx response goes on to response.json().
loadModelConfig_fetched(call, response) ==
    IF response.kind = "rejection" \/ ~response.ok
    THEN [call EXCEPT !.pc = "done", !.response = response,
                      !.outcome = Rejected(LoadConfigurationError(call.modelId))]
    ELSE [call EXCEPT !.pc = "json", !.response = response]

\* loadModelConfig and loadModelFromHub when response.json() settles
\* (108-113, 186-191).
loadModelFromHub_parsed(call) ==
    [call EXCEPT
        !.pc = "done",
        !.outcome =
            CASE call.response.body.json = "invalid" ->
                    Rejected(LoadConfigurationError(call.modelId))
              [] call.response.body.json = "null" -> Rejected(DestructureError)
              [] OTHER ->
                    Fulfilled(configToModelPreset(call.modelId, call.response.body.value))]

\* { ...model, isFromHub: true, hubUrl }
enhancedModel(preset, modelId) ==
    [name                |-> preset.name,
     parameters          |-> preset.parameters,
     sequenceLength      |-> preset.sequenceLength,
     headDimension       |-> preset.headDimension,
     nLayers             |-> preset.nLayers,
     nHeads              |-> preset.nHeads,
     defaultQuantization |-> preset.defaultQuantization,
     isFromHub           |-> TRUE,
     hubUrl              |-> <<"https://huggingface.co/", modelId>>]

\* prev.find(m => m.name === name) found an entry.
Exists(prev, name) == \E i \in DOMAIN prev : prev[i].name = name

\* The updater of setHubModels without the test for an entry of that name.
addToHubModels_Always(prev, enhanced) == Append(prev, enhanced)

\* The updater of setHubModels (66-70).
addToHubModels(prev, enhanced) ==
    IF Exists(prev, enhanced.name) THEN prev ELSE Append(prev, enhanced)

\* handleLoadModel resetting isLoading at the end of its try block, with no
\* finally block.
HandleLoadModelSettled_NoFinally(i, call) ==
    /\ IF call.outcome.state = "fulfilled"
       THEN /\ loaded' = Append(loaded, [call |-> i, model |-> enhancedModel(call.outcome.value, call.modelId)])
            /\ selectedModel' = call.modelId
            /\ isLoading' = FALSE
            /\ UNCHANGED <<error, reported>>
       ELSE /\ error' = call.outcome.reason.message
            /\ reported' = Append(reported, call.outcome.reason.message)
            /\ UNCHANGED <<loaded, selectedModel, isLoading>>
    /\ UNCHANGED <<hubModels, hookError>>

\* What handleLoadModel does once loadModelFromHub has settled (85-100).
HandleLoadModelSettled(i, call) ==
    /\ IF call.outcome.state = "fulfilled"
       THEN /\ loaded' = Append(loaded, [call |-> i, model |-> enhancedModel(call.outcome.value, call.modelId)])
            /\ selectedModel' = call.modelId
            /\ UNCHANGED <<error, reported>>
       ELSE /\ error' = call.outcome.reason.message
            /\ reported' = Append(reported, call.outcome.reason.message)
            /\ UNCHANGED <<loaded, selectedModel>>
    /\ isLoading' = FALSE
    /\ UNCHANGED <<hubModels, hookError>>

\* What addModelFromHub does once loadModelFromHub has settled (59-77).
AddModelFromHubSettled(i, call) ==
    /\ IF call.outcome.state = "fulfilled"
       THEN /\ hubModels' = addToHubModels(hubModels, enhancedModel(call.outcome.value, call.modelId))
            /\ UNCHANGED hookError
       ELSE /\ hookError' = call.outcome.reason.message
            /\ UNCHANGED hubModels
    /\ UNCHANGED <<isLoading, selectedModel, error, loaded, reported>>

\* The number of loads that are done.
Done == Cardinality({i \in DOMAIN calls : calls[i].pc = "done"})

\* The caller of a load goes on once the load is done; the load notes how
\* many were done before it.
Continue(i, call) ==
    /\ calls' = [calls EXCEPT
                    ![i] = IF call.pc = "done" THEN [call EXCEPT !.settled = Done + 1] ELSE call]
    /\ IF call.pc # "done"
       THEN UNCHANGED <<isLoading, selectedModel, error, loaded, reported, hubModels, hookError>>
       ELSE IF call.caller = "handleLoadModel"
            THEN HandleLoadModelSettled(i, call)
            ELSE AddModelFromHubSettled(i, call)

InitLoad ==
    /\ gpu = GPU(Num(125), Num(600), Num(24))
    /\ model = Model(Num(7), Num(2048), Num(1), Num(350), Num(150), "FP16")
    /\ out = Null
    /\ seen = Null
    /\ NothingLoaded
    /\ NothingSearched
    /\ CalculatorMounted

\* A click on a Load button, which is disabled while isLoading (159, 215):
\* handleLoadModel up to its await (80-84).
HandleLoadModel ==
    /\ ~isLoading
    /\ Len(calls) < MaxLoads
    /\ \E modelId \in ModelIds :
          calls' = Append(calls, Started("handleLoadModel", modelId))
    /\ isLoading' = TRUE
    /\ error' = ""
    /\ UNCHANGED <<selectedModel, loaded, reported, hubModels, hookError, calcVars, searchVars, appVars>>

\* A call of addModelFromHub up to its await (57-58).
AddModelFromHub ==
    /\ Len(calls) < MaxLoads
    /\ \E modelId \in ModelIds :
          calls' = Append(calls, Started("addModelFromHub", modelId))
    /\ UNCHANGED <<isLoading, selectedModel, error, loaded, reported, hubModels, hookError, calcVars, searchVars, appVars>>

\* The fetch of a load settles.
FetchSettles ==
    /\ \E i \in DOMAIN calls :
          /\ calls[i].pc = "fetch"
          /\ \E response \in FetchOutcomes(calls[i].modelId) :
                Continue(i, loadModelConfig_fetched(calls[i], response))
    /\ UNCHANGED <<calcVars, searchVars, appVars>>

\* response.json() of a load settles.
JsonSettles ==
    /\ \E i \in DOMAIN calls :
          /\ calls[i].pc = "json"
          /\ Continue(i, loadModelFromHub_parsed(calls[i]))
    /\ UNCHANGED <<calcVars, searchVars, appVars>>

NextLoad == HandleLoadModel \/ AddModelFromHub \/ FetchSettles \/ JsonSettles

SpecLoad == InitLoad /\ [][NextLoad]_vars

\* FetchSettles can take a step exactly when a load awaits its fetch, and
\* JsonSettles exactly when a load awaits response.json().
FetchSettlesEnabled == \E i \in DOMAIN calls : calls[i].pc = "fetch"

JsonSettlesEnabled == \E i \in DOMAIN calls : calls[i].pc = "json"

\* A fetch and a response.json() that have been issued settle: weak fairness
\* of FetchSettles and of JsonSettles, with the state predicates above in the
\* place of ENABLED.
FairSpecLoad ==
    /\ SpecLoad
    /\ ([]<>(~FetchSettlesEnabled) \/ []<><<FetchSettles>>_vars)
    /\ ([]<>(~JsonSettlesEnabled) \/ []<><<JsonSettles>>_vars)

----------------------------------------------------------------------------
(* configToModelPreset on configuration objects with absent, zero and
   non-numeric properties *)

\* What a property of a configuration may hold: nothing, 0, a string that
\* is not a number, or the value given.
PropertyValues(v) == {Undefined, Num(0), Str("abc"), Num(v)}

ConfigInputs ==
    {Config(h, Num(8192), p, a, l, Num(32000)) :
        h \in PropertyValues(2048), p \in PropertyValues(4096),
        a \in PropertyValues(16), l \in PropertyValues(24)}
        \cup {Config(Num(2048), i, Num(4096), Num(16), Num(24), v) :
                 i \in PropertyValues(8192), v \in PropertyValues(32000)}

InitPreset ==
    /\ gpu = GPU(Num(125), Num(600), Num(24))
    /\ model = Model(Num(7), Num(2048), Num(1), Num(350), Num(150), "FP16")
    /\ out \in {[fn |-> "none", config |-> c] : c \in ConfigInputs}
    /\ seen = Null
    /\ NothingLoaded
    /\ NothingSearched
    /\ CalculatorMounted

\* configToModelPreset(modelId, config) on the configuration at hand.
ConfigToModelPreset ==
    /\ out.fn = "none"
    /\ \E modelId \in ModelIds :
          out' = [fn |-> "configToModelPreset", modelId |-> modelId, config |-> out.config,
                  val |-> configToModelPreset(modelId, out.config)]
    /\ UNCHANGED <<gpu, model, seen, loadVars, searchVars, appVars>>

\* estimateParameters(config) on the configuration at hand.
EstimateParameters ==
    /\ out.fn = "none"
    /\ out' = [fn |-> "estimateParameters", config |-> out.config,
               val |-> estimateParameters(out.config)]
    /\ UNCHANGED <<gpu, model, seen, loadVars, searchVars, appVars>>

NextPreset == ConfigToModelPreset \/ EstimateParameters

SpecPreset == InitPreset /\ [][NextPreset]_vars

----------------------------------------------------------------------------
(* The calculator page: GPUSelector and ModelInputs report changes to
   AIModelCalculator, whose effect recomputes the results *)

\* COMMON_GPUS.find(g => g.name === gpuName): the index of the entry, or 0.
FindGPU(gpuName) ==
    IF \E i \in DOMAIN COMMON_GPUS : COMMON_GPUS[i].name = gpuName
    THEN CHOOSE i \in DOMAIN COMMON_GPUS :
            /\ COMMON_GPUS[i].name = gpuName
            /\ \A j \in 1..(i - 1) : COMMON_GPUS[j].name # gpuName
    ELSE 0

\* COMMON_MODELS.find(m => m.name === modelName): the index of the entry, or 0.
FindModel(modelName) ==
    IF \E i \in DOMAIN COMMON_MODELS : COMMON_MODELS[i].name = modelName
    THEN CHOOSE i \in DOMAIN COMMON_MODELS :
            /\ COMMON_MODELS[i].name = modelName
            /\ \A j \in 1..(i - 1) : COMMON_MODELS[j].name # modelName
    ELSE 0

\* The values of the GPU select (140-145), and a value it does not offer.
GPUNames ==
    {COMMON_GPUS[i].name : i \in DOMAIN COMMON_GPUS} \cup {"custom", "NVIDIA V100"}

\* The values of the preset select of ModelInputs (115-119), and a value it
\* does not offer.
ModelNames == {COMMON_MODELS[i].name : i \in DOMAIN COMMON_MODELS} \cup {"Mistral 7B"}

\* Edits of the custom GPU fields (174, 189, 204): the field and the number
\* parseFloat(text) || 0 gives.
CustomGPUEdits ==
    {<<"computeBandwidth", Num(0)>>, <<"memorySize", Num(16)>>}

\* Edits of the model fields (129-293): the field and the value the input
\* hands to handleInputChange.
ModelEdits ==
    {<<"parameters", Num(0)>>, <<"quantization", "INT4">>, <<"batchSize", Num(2)>>}

\* setSelectedGPU(g): the effect is due when the dependency changed.
setSelectedGPU(g) ==
    /\ selectedGPU' = g
    /\ effectPending' = (effectPending \/ g # selectedGPU)

\* setModelSpecs(m) with modelSpecs left out of the dependencies of the effect.
setModelSpecs_NotADependency(m) ==
    /\ modelSpecs' = m
    /\ UNCHANGED effectPending

\* setModelSpecs(m)
setModelSpecs(m) ==
    /\ modelSpecs' = m
    /\ effectPending' = (effectPending \/ m # modelSpecs)

\* { ...customGPU, [field]: value }
updatedGPU(field, value) == [customGPU EXCEPT ![field] = value]

\* GPUSelector.handlePresetChange(gpuName) (108-119)
GPUSelector_handlePresetChange(gpuName) ==
    /\ event' = [handler |-> "GPUSelector.handlePresetChange", arg |-> <<gpuName>>]
    /\ IF gpuName = "custom"
       THEN /\ isCustom' = TRUE
            /\ setSelectedGPU(customGPU)
       ELSE /\ isCustom' = FALSE
            /\ IF FindGPU(gpuName) # 0
               THEN setSelectedGPU(COMMON_GPUS[FindGPU(gpuName)])
               ELSE UNCHANGED <<selectedGPU, effectPending>>
    /\ UNCHANGED <<customGPU, modelSpecs, results>>

\* handleCustomGPUChange(field, value) (121-125)
handleCustomGPUChange(field, value) ==
    /\ event' = [handler |-> "handleCustomGPUChange", arg |-> <<field, value>>]
    /\ customGPU' = updatedGPU(field, value)
    /\ setSelectedGPU(updatedGPU(field, value))
    /\ UNCHANGED <<isCustom, modelSpecs, results>>

\* handleInputChange(field, value) (76-78)
handleInputChange(field, value) ==
    /\ event' = [handler |-> "handleInputChange", arg |-> <<field, value>>]
    /\ setModelSpecs([modelSpecs EXCEPT ![field] = value])
    /\ UNCHANGED <<selectedGPU, isCustom, customGPU, results>>

\* ModelInputs.handlePresetChange setting batchSize back to 1 with a preset.
ModelInputs_handlePresetChange_ResetsBatch(modelName) ==
    /\ event' = [handler |-> "ModelInputs.handlePresetChange", arg |-> <<modelName>>]
    /\ IF FindModel(modelName) # 0 /\ Gt(COMMON_MODELS[FindModel(modelName)].parameters, Zero)
       THEN setModelSpecs([modelSpecs EXCEPT
                              !.parameters = COMMON_MODELS[FindModel(modelName)].parameters,
                              !.sequenceLength = COMMON_MODELS[FindModel(modelName)].sequenceLength,
                              !.headDimension = COMMON_MODELS[FindModel(modelName)].headDimension,
                              !.nLayers = COMMON_MODELS[FindModel(modelName)].nLayers,
                              !.nHeads = COMMON_MODELS[FindModel(modelName)].nHeads,
                              !.batchSize = Num(1)])
       ELSE UNCHANGED <<modelSpecs, effectPending>>
    /\ UNCHANGED <<selectedGPU, isCustom, customGPU, results>>

\* ModelInputs.handlePresetChange(modelName) (80-92)
ModelInputs_handlePresetChange(modelName) ==
    /\ event' = [handler |-> "ModelInputs.handlePresetChange", arg |-> <<modelName>>]
    /\ IF FindModel(modelName) # 0 /\ Gt(COMMON_MODELS[FindModel(modelName)].parameters, Zero)
       THEN setModelSpecs([modelSpecs EXCEPT
                              !.parameters = COMMON_MODELS[FindModel(modelName)].parameters,
                              !.sequenceLength = COMMON_MODELS[FindModel(modelName)].sequenceLength,
                              !.headDimension = COMMON_MODELS[FindModel(modelName)].headDimension,
                              !.nLayers = COMMON_MODELS[FindModel(modelName)].nLayers,
                              !.nHeads = COMMON_MODELS[FindModel(modelName)].nHeads])
       ELSE UNCHANGED <<modelSpecs, effectPending>>
    /\ UNCHANGED <<selectedGPU, isCustom, customGPU, results>>

InitCalculator ==
    /\ gpu = COMMON_GPUS[2]
    /\ model = DEFAULT_MODEL
    /\ out = Null
    /\ seen = Null
    /\ NothingLoaded
    /\ NothingSearched
    /\ CalculatorMounted

\* A handler runs once the effects of the last render have run.
SelectGPU ==
    /\ ~effectPending
    /\ \E gpuName \in GPUNames : GPUSelector_handlePresetChange(gpuName)
    /\ UNCHANGED <<calcVars, loadVars, searchVars>>

\* The custom fields are rendered while isCustom (152).
EditCustomGPU ==
    /\ ~effectPending
    /\ isCustom
    /\ \E edit \in CustomGPUEdits : handleCustomGPUChange(edit[1], edit[2])
    /\ UNCHANGED <<calcVars, loadVars, searchVars>>

SelectModel ==
    /\ ~effectPending
    /\ \E modelName \in ModelNames : ModelInputs_handlePresetChange(modelName)
    /\ UNCHANGED <<calcVars, loadVars, searchVars>>

EditModel ==
    /\ ~effectPending
    /\ \E edit \in ModelEdits : handleInputChange(edit[1], edit[2])
    /\ UNCHANGED <<calcVars, loadVars, searchVars>>

\* The effect of AIModelCalculator (61-66).
RunEffect ==
    /\ effectPending
    /\ effectPending' = FALSE
    /\ UNCHANGED <<selectedGPU, modelSpecs, isCustom, customGPU, event>>
    /\ results' = calculatePerformance(selectedGPU, modelSpecs)
    /\ UNCHANGED <<calcVars, loadVars, searchVars>>

NextCalculator == SelectGPU \/ EditCustomGPU \/ SelectModel \/ EditModel \/ RunEffect

SpecCalculator == InitCalculator /\ [][NextCalculator]_vars

\* RunEffect can take a step exactly when the effect is pending.
RunEffectEnabled == effectPending

\* React runs a pending effect: weak fairness of RunEffect, with the state
\* predicate RunEffectEnabled in the place of ENABLED <<RunEffect>>_vars.
FairSpecCalculator ==
    SpecCalculator /\ ([]<>(~RunEffectEnabled) \/ []<><<RunEffect>>_vars)

----------------------------------------------------------------------------
(* The search box of HuggingFaceModelSearch: changes of the input, the
   timeouts they set and the searches the timeouts start *)

\* How many changes of the search input a behaviour has.
MaxChanges == 2

\* The delay of the setTimeout of handleSearchInputChange, in ms.
DebounceMs == 500

\* How long the clock runs between two steps, in ms, when no timeout is due
\* earlier.
Delays == {100, 400}

\* What the input may hold, as strings of characters: nothing, a blank, and
\* two queries.
Queries == {<<>>, <<" ">>, <<"g">>, <<"g", "r">>}

\* The ids of the text-generation models the Hub holds, by downloads.
HubModelIds == <<<<"g", "2">>, <<"g", "r", "8">>>>

\* String.prototype.trim
RECURSIVE trim(_)
trim(query) ==
    IF query = <<>> THEN <<>>
    ELSE IF Head(query) = " " THEN trim(Tail(query))
    ELSE IF query[Len(query)] = " " THEN trim(SubSeq(query, 1, Len(query) - 1))
    ELSE query

\* The query occurs in the id.
Contains(id, query) ==
    \E i \in 0..(Len(id) - Len(query)) : SubSeq(id, i + 1, i + Len(query)) = query

\* The array the Hub answers a search with.
ResultsFor(query) == SelectSeq(HubModelIds, LAMBDA id : Contains(id, query))

\* How the fetch of a search settles: a 2xx response whose body is the
\* array, the JSON text null or no JSON at all, a non-2xx response, or a
\* rejection.
SearchOutcomes(query) ==
    {[kind |-> "response", ok |-> TRUE, statusText |-> "OK", body |-> b] :
        b \in {[json |-> "array", value |-> ResultsFor(query)],
               [json |-> "null", value |-> <<>>],
               [json |-> "invalid", value |-> <<>>]}}
        \cup {[kind |-> "response", ok |-> FALSE, statusText |-> "Too Many Requests",
               body |-> [json |-> "invalid", value |-> <<>>]],
              [kind |-> "rejection", ok |-> FALSE, statusText |-> "",
               body |-> [json |-> "invalid", value |-> <<>>]]}

\* new Error('Failed to search models from Hugging Face Hub')
SearchError == ErrorOf("Error", <<"Failed to search models from Hugging Face Hub">>)

\* A timeout set by handleSearchInputChange: the query it closes over, when
\* it is due and whether it has fired.
Timeout(query, due) == [query |-> query, due |-> due, fired |-> FALSE]

\* The timeouts that have not fired.
Waiting == {i \in DOMAIN timers : ~timers[i].fired}

\* A call of searchModels that has issued its fetch and awaits it, with the
\* timeout that called it and the time of the call.
Searching(query, change) ==
    [query |-> query, change |-> change, at |-> now, pc |-> "fetch", outcome |-> Pending,
     response |-> NoResponse]

\* searchModels when its fetch settles (77-91).
searchModels_fetched(search, response) ==
    IF response.kind = "rejection" \/ ~response.ok
    THEN [search EXCEPT !.pc = "done", !.response = response, !.outcome = Rejected(SearchError)]
    ELSE [search EXCEPT !.pc = "json", !.response = response]

\* searchModels when response.json() settles (83-91).
searchModels_parsed(search) ==
    [search EXCEPT
        !.pc = "done",
        !.outcome =
            IF search.response.body.json = "invalid"
            THEN Rejected(SearchError)
            ELSE Fulfilled([models |-> search.response.body.value])]

\* What handleSearch does once searchModels has settled (69-76).
HandleSearchSettled(i, search) ==
    /\ searches' = [searches EXCEPT ![i] = search]
    /\ IF search.pc # "done"
       THEN UNCHANGED <<searchResults, isSearching, error, reported>>
       ELSE /\ IF search.outcome.state = "fulfilled"
               THEN /\ searchResults' = search.outcome.value.models
                    /\ UNCHANGED <<error, reported>>
               ELSE /\ error' = search.outcome.reason.message
                    /\ reported' = Append(reported, search.outcome.reason.message)
                    /\ UNCHANGED searchResults
            /\ isSearching' = FALSE

InitSearch ==
    /\ gpu = GPU(Num(125), Num(600), Num(24))
    /\ model = Model(Num(7), Num(2048), Num(1), Num(350), Num(150), "FP16")
    /\ out = Null
    /\ seen = Null
    /\ NothingLoaded
    /\ NothingSearched
    /\ CalculatorMounted

\* A change of the search input: handleSearchInputChange (103-113). What it
\* returns is returned to React, which does not call it.
HandleSearchInputChange ==
    /\ Len(timers) < MaxChanges
    /\ \E query \in Queries :
          /\ searchQuery' = query
          /\ timers' = Append(timers, Timeout(query, now + DebounceMs))
    /\ lastChange' = now
    /\ UNCHANGED <<searchResults, isSearching, searches, now, calcVars, loadVars, appVars>>

\* The earliest timeout is due and calls handleSearch with its query, which
\* runs up to its await (52-62).
TimerFires ==
    /\ \E i \in Waiting :
          /\ \A j \in Waiting : i <= j
          /\ timers[i].due = now
          /\ timers' = [timers EXCEPT ![i].fired = TRUE]
          /\ IF trim(timers[i].query) = <<>>
             THEN /\ searchResults' = <<>>
                  /\ UNCHANGED <<isSearching, error, searches>>
             ELSE /\ isSearching' = TRUE
                  /\ error' = ""
                  /\ searches' = Append(searches, Searching(timers[i].query, i))
                  /\ UNCHANGED searchResults
    /\ UNCHANGED <<searchQuery, now, lastChange, calls, isLoading, selectedModel, loaded, reported,
                   hubModels, hookError, calcVars, appVars>>

\* The fetch of a search settles.
SearchFetchSettles ==
    /\ \E i \in DOMAIN searches :
          /\ searches[i].pc = "fetch"
          /\ \E response \in SearchOutcomes(searches[i].query) :
                HandleSearchSettled(i, searchModels_fetched(searches[i], response))
    /\ UNCHANGED <<searchQuery, timers, now, lastChange, calls, isLoading, selectedModel, loaded,
                   hubModels, hookError, calcVars, appVars>>

\* response.json() of a search settles.
SearchJsonSettles ==
    /\ \E i \in DOMAIN searches :
          /\ searches[i].pc = "json"
          /\ HandleSearchSettled(i, searchModels_parsed(searches[i]))
    /\ UNCHANGED <<searchQuery, timers, now, lastChange, calls, isLoading, selectedModel, loaded,
                   hubModels, hookError, calcVars, appVars>>

\* Time passes while a timeout waits, up to the moment the earliest is due.
Tick ==
    /\ Waiting # {}
    /\ \E d \in Delays :
          /\ \A i \in Waiting : now < timers[i].due
          /\ now' = IF \E i \in Waiting : timers[i].due < now + d
                    THEN CHOOSE t \in {timers[i].due : i \in Waiting} :
                            \A i \in Waiting : t <= timers[i].due
                    ELSE now + d
    /\ UNCHANGED <<searchQuery, searchResults, isSearching, timers, searches, lastChange,
                   calcVars, loadVars, appVars>>

NextSearch ==
    HandleSearchInputChange \/ TimerFires \/ SearchFetchSettles \/ SearchJsonSettles \/ Tick

SpecSearch == InitSearch /\ [][NextSearch]_vars

----------------------------------------------------------------------------
(* Properties *)

\* The result of the last call, when it was a call of calculatePerformance.
Returned == out.fn = "calculatePerformance"

\* C1: in every result calculatePerformance returns, exactly one of
\* isMemoryBound and isComputeBound is true, and isComputeBound is true
\* exactly when arithmeticIntensity >= opsToByteRatio.
C1_BottleneckExactlyOne ==
    Returned =>
        /\ out.val.isMemoryBound # out.val.isComputeBound
        /\ out.val.isComputeBound <=> Ge(out.val.arithmeticIntensity, out.val.opsToByteRatio)

\* The total memory need and the utilization of the caller's gpu and model.
Needed == totalMemoryWithKV(model)

Utilization == memoryUtilization(gpu, model)

\* C2: the memory warning rules apply in order and the first match wins:
\* total need > GPU memory gives the shortfall message (required, available,
\* shortfall), else utilization > 90 the high-usage message, else
\* utilization > 80 the moderate-usage message, else no warning and no
\* message; hasMemoryWarning is true exactly when a message is set.
C2_FirstMatchingRuleWins ==
    Returned =>
        /\ out.val.memoryWarningMessage =
              IF Gt(Needed, gpu.memorySize)
                  THEN ShortfallMessage(Needed, gpu.memorySize, Sub(Needed, gpu.memorySize))
              ELSE IF Gt(Utilization, Num(90)) THEN HighUsageMessage(Utilization)
              ELSE IF Gt(Utilization, Num(80)) THEN ModerateUsageMessage(Utilization)
              ELSE NoMessage
        /\ out.val.hasMemoryWarning <=> out.val.memoryWarningMessage # NoMessage

\* A result where the need exceeds the GPU memory, so that every rule
\* matches, and the message is the shortfall one.
C2_ShortfallWins ==
    /\ Returned
    /\ Gt(Needed, gpu.memorySize) /\ Gt(Utilization, Num(90)) /\ Gt(Utilization, Num(80))
    /\ IsFinite(Utilization)
    /\ out.val.hasMemoryWarning
    /\ out.val.memoryWarningMessage[1] = "Model requires"

\* C3: the thresholds are exclusive: at exactly 80% there is no warning, at
\* exactly 90% the message is the moderate one, at exactly 100% the
\* high-usage one and not the shortfall one; and with 9.5 GB needed on a 10 GB
\* GPU (95%) hasMemoryWarning is true with the high-usage message.
C3_ThresholdsExclusive ==
    Returned =>
        /\ StrictEq(out.val.memoryUtilization, Num(80)) =>
              ~out.val.hasMemoryWarning /\ out.val.memoryWarningMessage = NoMessage
        /\ StrictEq(out.val.memoryUtilization, Num(90)) =>
              out.val.memoryWarningMessage = <<"Moderate memory usage", Num(90)>>
        /\ StrictEq(out.val.memoryUtilization, Num(100)) =>
              out.val.memoryWarningMessage = <<"High memory usage", Num(100)>>
        /\ (StrictEq(gpu.memorySize, Num(10)) /\ StrictEq(Needed, Dec(95, -1))) =>
              /\ out.val.hasMemoryWarning
              /\ out.val.memoryWarningMessage = <<"High memory usage", Num(95)>>

\* A result at exactly 80% utilization.
C3_AtEightyPercent ==
    Returned /\ StrictEq(out.val.memoryUtilization, Num(80)) /\ ~out.val.hasMemoryWarning

\* The numbers of a result.
Metrics(r) ==
    <<r.opsToByteRatio, r.arithmeticIntensity, r.prefillTime, r.timePerToken,
      r.totalGenerationTime, r.throughputTokensPerSecond, r.modelSizeGB,
      r.memoryUtilization>>

\* C4: no result of calculatePerformance contains NaN or Infinity (an input
\* with a zero in a field that must be positive is rejected instead).
C4_NoNaNOrInfinity == Returned => AllFinite(Metrics(out.val))

\* C5: calculateArithmeticIntensity returns a number >= 0.1, never NaN, for
\* every model the input form can store.
C5_IntensityAtLeastFloor == Returned => Ge(out.val.arithmeticIntensity, Dec(1, -1))

\* C6: a result computed with the 80% system-overhead configuration has
\* phase times different from the one computed with 100%.
C6_OverheadAdjustsPhaseTimes ==
    (/\ Returned
     /\ out.overhead = DEFAULT_SYSTEM_OVERHEAD
     /\ IsFinite(out.val.prefillTime) /\ Gt(out.val.prefillTime, Zero)
     /\ IsFinite(out.val.timePerToken) /\ Gt(out.val.timePerToken, Zero))
    => /\ out.val.prefillTime # evaluate(gpu, model, FullEfficiency).prefillTime
       /\ out.val.timePerToken # evaluate(gpu, model, FullEfficiency).timePerToken

FasterMemory ==
    {g \in GPUInputs : /\ g.computeBandwidth = gpu.computeBandwidth
                       /\ g.memorySize = gpu.memorySize
                       /\ Gt(g.memoryBandwidth, gpu.memoryBandwidth)}

FasterCompute ==
    {g \in GPUInputs : /\ g.memoryBandwidth = gpu.memoryBandwidth
                       /\ g.memorySize = gpu.memorySize
                       /\ Gt(g.computeBandwidth, gpu.computeBandwidth)}

\* C8: with all else fixed and positive bandwidths, a larger memoryBandwidth
\* never gives a larger time per token and a larger computeBandwidth never
\* gives a larger prefill time, for every quantization.
C8_MoreBandwidthNeverSlower ==
    Returned =>
        /\ Gt(gpu.memoryBandwidth, Zero) =>
              \A g \in FasterMemory : Le(calculateTimePerToken(g, model), out.val.timePerToken)
        /\ Gt(gpu.computeBandwidth, Zero) =>
              \A g \in FasterCompute : Le(calculatePrefillTime(g, model), out.val.prefillTime)

\* A result with positive phase times for which a GPU with more memory
\* bandwidth and one with more compute bandwidth exist, each strictly faster.
C8_FasterGPUExists ==
    /\ Returned
    /\ Gt(gpu.memoryBandwidth, Zero) /\ Gt(gpu.computeBandwidth, Zero)
    /\ \E g \in FasterMemory : Lt(calculateTimePerToken(g, model), out.val.timePerToken)
    /\ \E g \in FasterCompute : Lt(calculatePrefillTime(g, model), out.val.prefillTime)

\* The row the specification gives for a quantization name.
ExpectedRow(quantization) ==
    CASE quantization = "FP32" ->
            [name |-> "FP32", bytesPerParameter |-> Num(4), computeMultiplier |-> Dec(5, -1)]
      [] quantization = "INT8" ->
            [name |-> "INT8", bytesPerParameter |-> Num(1), computeMultiplier |-> Num(2)]
      [] quantization = "INT4" ->
            [name |-> "INT4", bytesPerParameter |-> Dec(5, -1), computeMultiplier |-> Num(4)]
      [] OTHER ->
            [name |-> "FP16", bytesPerParameter |-> Num(2), computeMultiplier |-> Num(1)]

\* C9: getQuantizationInfo returns the row of each of FP32, FP16, INT8 and
\* INT4, and the FP16 row for every other name, an empty or missing one
\* included; a result computed with an unknown quantization equals the one
\* computed with FP16 in every field.
C9_QuantizationFallback ==
    /\ out.fn = "getQuantizationInfo" => out.val = ExpectedRow(model.quantization)
    /\ (Returned /\ model.quantization \notin QuantizationNames) =>
          out.val = calculatePerformance(gpu, [model EXCEPT !.quantization = "FP16"])

\* A result with finite, positive metrics computed with an unknown
\* quantization.
C9_UnknownQuantization ==
    /\ Returned
    /\ model.quantization \in {"bogus", "", Missing}
    /\ AllFinite(Metrics(out.val))
    /\ Gt(out.val.modelSizeGB, Zero) /\ Gt(out.val.prefillTime, Zero)

\* C10: calculateThroughput returns 0 when the total time is 0, whatever the
\* token count, and never divides by zero: a result with total generation
\* time 0 has throughput 0.
C10_ThroughputZeroGuard ==
    (Returned /\ StrictEq(out.val.totalGenerationTime, Zero)) =>
        out.val.throughputTokensPerSecond = Zero

\* A result with total generation time 0 for a request of 500 tokens.
C10_ZeroTimeWithTokens ==
    /\ Returned
    /\ StrictEq(out.val.totalGenerationTime, Zero)
    /\ StrictEq(Add(model.promptTokens, model.outputTokens), Num(500))

\* C11: in every result totalGenerationTime equals prefillTime +
\* timePerToken x model.outputTokens, and with outputTokens = 0 it equals
\* prefillTime exactly.
C11_TotalIsPrefillPlusDecode ==
    Returned =>
        /\ out.val.totalGenerationTime =
              Add(out.val.prefillTime, Mul(out.val.timePerToken, model.outputTokens))
        /\ IsZero(model.outputTokens) => out.val.totalGenerationTime = out.val.prefillTime

\* batchSize x (4N^2 d + 3N^2) / ((8N^2 + 8Nd) x b / 2) in lowest terms,
\* batchSize x N x (4d + 3) / (4 x b x (N + d)), for N >= 1.
ExpectedIntensity(m) ==
    LET N == m.sequenceLength
        d == estimateModelDimension(m.parameters)
        b == ExpectedRow(m.quantization).bytesPerParameter
    IN  Div(Mul(m.batchSize, Mul(N, Add(Mul(Num(4), d), Num(3)))),
            Mul(Mul(Num(4), b), Add(N, d)))

\* C12: for sequenceLength >= 1 calculateArithmeticIntensity returns
\* max(0.1, batchSize x (4N^2 d + 3N^2) / ((8N^2 + 8Nd) x b / 2)); above the
\* floor it doubles with batchSize, and INT4 gives 4 times the FP16 value.
C12_IntensityFormula ==
    (Returned /\ Ge(model.sequenceLength, Num(1))) =>
        /\ out.val.arithmeticIntensity = MathMax(Dec(1, -1), ExpectedIntensity(model))
        /\ Gt(out.val.arithmeticIntensity, Dec(1, -1)) =>
              /\ calculateArithmeticIntensity(
                    [model EXCEPT !.batchSize = Mul(Num(2), model.batchSize)])
                 = Mul(Num(2), out.val.arithmeticIntensity)
              /\ calculateArithmeticIntensity([model EXCEPT !.quantization = "INT4"])
                 = Mul(Num(4),
                       calculateArithmeticIntensity([model EXCEPT !.quantization = "FP16"]))

\* A result for an INT4 model of batch size 2 and a sequence length >= 1,
\* with an intensity above the floor.
C12_BatchedINT4 ==
    /\ Returned
    /\ Ge(model.sequenceLength, Num(1))
    /\ model.quantization = "INT4" /\ StrictEq(model.batchSize, Num(2))
    /\ Gt(out.val.arithmeticIntensity, Dec(1, -1))

\* The steps of the rule: the dimension for a parameter count of at most 65.
StepDimension(p) ==
    IF Le(p, Num(1)) THEN 2048
    ELSE IF Le(p, Num(3)) THEN 3072
    ELSE IF Le(p, Num(7)) THEN 4096
    ELSE IF Le(p, Num(13)) THEN 5120
    ELSE IF Le(p, Num(30)) THEN 6656
    ELSE 8192

\* v is 8192 x sqrt(p / 65): v >= 0 and v^2 = 8192^2 x p / 65.
IsScaledRoot(v, p) == Mul(v, v) = Mul(Num(8192 * 8192), Div(p, Num(65)))

\* v is the integer nearest to 8192 x sqrt(p / 65):
\* v^2 - v + 1/4 <= 8192^2 x p / 65 <= v^2 + v + 1/4.
IsRoundedScaledRoot(v, p) ==
    LET i   == AsFraction(v)
        f   == AsFraction(Mul(Num(8192 * 8192), Div(p, Num(65))))
        fl  == f[1] \div f[2]
        rem == f[1] % f[2]
        sq  == i[1] * i[1]
    IN  /\ i[2] = 1 /\ i[1] >= 0
        /\ sq - i[1] < fl \/ (sq - i[1] = fl /\ 4 * rem >= f[2])
        /\ fl < sq + i[1] \/ (fl = sq + i[1] /\ 4 * rem <= f[2])

\* The result of the last call, when it was a call of estimateModelDimension.
Estimated == out.fn = "estimateModelDimension"

\* The result never decreases when parameters increases.
DimensionMonotone ==
    \A p \in ParameterValues :
        Lt(model.parameters, p) => Le(out.val, estimateModelDimension(p))

\* C13 as stated: the steps with inclusive upper bounds, above 65 the value
\* 8192 x sqrt(parameters / 65), and a result that never decreases when
\* parameters increases.
C13_DimensionRule ==
    Estimated =>
        /\ IF Le(model.parameters, Num(65))
              THEN out.val = Num(StepDimension(model.parameters))
              ELSE IsScaledRoot(out.val, model.parameters)
        /\ DimensionMonotone

\* C13 amended: above 65 the value is 8192 x sqrt(parameters / 65) rounded to
\* the nearest integer.
C13_DimensionRuleRounded ==
    Estimated =>
        /\ IF Le(model.parameters, Num(65))
              THEN out.val = Num(StepDimension(model.parameters))
              ELSE IsRoundedScaledRoot(out.val, model.parameters)
        /\ DimensionMonotone

\* The dimension of a 70B model: 8501, where 8192 x sqrt(70 / 65) = 8501.24...
C13_SeventyBillion ==
    Estimated /\ StrictEq(model.parameters, Num(70)) /\ out.val = Num(8501)

\* C14: the returned memoryUtilization equals min(total memory needed /
\* gpu.memorySize x 100, 999) and is never above 999, while the warning is
\* decided on the uncapped value: a returned memoryUtilization above 100
\* comes with hasMemoryWarning and the shortfall message.
C14_UtilizationCapped ==
    Returned =>
        /\ out.val.memoryUtilization =
              MathMin(Mul(Div(Needed, gpu.memorySize), Num(100)), Num(999))
        /\ ~Gt(out.val.memoryUtilization, Num(999))
        /\ Gt(out.val.memoryUtilization, Num(100)) =>
              /\ out.val.hasMemoryWarning
              /\ out.val.memoryWarningMessage =
                    ShortfallMessage(Needed, gpu.memorySize, Sub(Needed, gpu.memorySize))

\* A result whose utilization is finite and above 999%: 999 is returned, with
\* the shortfall message.
C14_AboveTheCap ==
    /\ Returned
    /\ IsFinite(Utilization) /\ Gt(Utilization, Num(999))
    /\ out.val.memoryUtilization = Num(999)
    /\ out.val.hasMemoryWarning
    /\ out.val.memoryWarningMessage[1] = "Model requires"

\* The GPUs that differ from the caller's in one field at most; every GPU is
\* the caller's in some state, so these chain to every pair of GPUs.
OneFieldAway ==
    {[gpu EXCEPT !.computeBandwidth = v] : v \in ComputeBandwidthValues}
        \cup {[gpu EXCEPT !.memoryBandwidth = v] : v \in MemoryBandwidthValues}
        \cup {[gpu EXCEPT !.memorySize = v] : v \in MemorySizeValues}

\* modelSizeGB of the caller's model with another quantization.
SizeWith(quantization) ==
    Div(calculateModelSizeBytes([model EXCEPT !.quantization = quantization]), GiB)

\* C15: modelSizeGB = parameters x 1e9 x bytesPerParameter / 1024^3,
\* whatever the GPU, so that for the same parameters count the INT4 size is
\* the FP16 size / 4, the INT8 size the FP16 size / 2 and the FP32 size twice
\* the FP16 size.
C15_SizeProportionalToBytes ==
    Returned =>
        /\ out.val.modelSizeGB =
              Div(Mul(Mul(model.parameters, Dec(1, 9)),
                      ExpectedRow(model.quantization).bytesPerParameter),
                  Num(1024 * 1024 * 1024))
        /\ \A g \in OneFieldAway : checkMemoryFit(g, model).modelSizeGB = out.val.modelSizeGB
        /\ SizeWith("INT4") = Div(SizeWith("FP16"), Num(4))
        /\ SizeWith("INT8") = Div(SizeWith("FP16"), Num(2))
        /\ SizeWith("FP32") = Mul(Num(2), SizeWith("FP16"))
        /\ out.val.modelSizeGB = SizeWith(model.quantization)

\* A result for an INT4 model with parameters: its size is positive and a
\* quarter of the FP16 size.
C15_QuarterSize ==
    /\ Returned
    /\ model.quantization = "INT4"
    /\ Gt(out.val.modelSizeGB, Zero)
    /\ Mul(Num(4), out.val.modelSizeGB) = SizeWith("FP16")

\* The caller's GPU with another memory bandwidth or memory size.
SameCompute == {g \in OneFieldAway : g.computeBandwidth = gpu.computeBandwidth}

\* The caller's model with another batch size, sequence length or number of
\* output tokens.
SamePrefillWork ==
    {[model EXCEPT !.batchSize = Num(b)] : b \in 1..(MaxBatchSize + 1)}
        \cup {[model EXCEPT !.sequenceLength = Num(2048 * i)] : i \in 0..(MaxContextBlocks + 1)}
        \cup {[model EXCEPT !.outputTokens = Num(t)] : t \in {0, 150, 300}}

\* C16: prefillTime = promptTokens x parameters x 1e9 x 2 FLOPs / (computeBandwidth
\* x 1e12 x computeMultiplier) in milliseconds; it is proportional to
\* promptTokens and to parameters and does not depend on memoryBandwidth,
\* memorySize, batchSize, sequenceLength or outputTokens.
C16_PrefillFormula ==
    Returned =>
        /\ out.val.prefillTime =
              Mul(Div(Mul(Mul(Mul(model.promptTokens, model.parameters), Dec(1, 9)), Num(2)),
                      Mul(Mul(gpu.computeBandwidth, Dec(1, 12)),
                          ExpectedRow(model.quantization).computeMultiplier)),
                  Num(1000))
        /\ calculatePrefillTime(gpu, [model EXCEPT !.promptTokens = Mul(Num(2), @)])
              = Mul(Num(2), out.val.prefillTime)
        /\ calculatePrefillTime(gpu, [model EXCEPT !.parameters = Mul(Num(3), @)])
              = Mul(Num(3), out.val.prefillTime)
        /\ \A g \in SameCompute : calculatePrefillTime(g, model) = out.val.prefillTime
        /\ \A m \in SamePrefillWork : calculatePrefillTime(gpu, m) = out.val.prefillTime

\* A result with a finite, positive prefill time for an INT8 model.
C16_FinitePrefill ==
    /\ Returned
    /\ model.quantization = "INT8"
    /\ IsFinite(out.val.prefillTime) /\ Gt(out.val.prefillTime, Zero)
    /\ Gt(model.outputTokens, Zero) /\ Gt(model.sequenceLength, Zero)

\* The T4 (65 TFLOPS, 300 GB/s) running a 7B FP16 model.
T4WithSevenBillion ==
    /\ gpu.computeBandwidth = Num(65) /\ gpu.memoryBandwidth = Num(300)
    /\ model.parameters = Num(7) /\ model.quantization = "FP16"

\* C17: timePerToken = (parameters x 1e9 x bytesPerParameter) / (memoryBandwidth
\* x 1e9) x 1000 ms and opsToByteRatio = (computeBandwidth x 1e12) /
\* (memoryBandwidth x 1e9); for the T4 with a 7B FP16 model they are 46.7 ms
\* and 216.7 to one decimal.
C17_TimePerTokenAndRatio ==
    Returned =>
        /\ out.val.timePerToken =
              Mul(Div(Mul(Mul(model.parameters, Dec(1, 9)),
                          ExpectedRow(model.quantization).bytesPerParameter),
                      Mul(gpu.memoryBandwidth, Dec(1, 9))),
                  Num(1000))
        /\ out.val.opsToByteRatio =
              Div(Mul(gpu.computeBandwidth, Dec(1, 12)), Mul(gpu.memoryBandwidth, Dec(1, 9)))
        /\ T4WithSevenBillion =>
              /\ ToFixed1(out.val.timePerToken) = Dec(467, -1)
              /\ ToFixed1(out.val.opsToByteRatio) = Dec(2167, -1)

\* The T4 example has been computed: 140/3 ms per token, ratio 650/3.
C17_T4Example ==
    /\ Returned
    /\ T4WithSevenBillion
    /\ Mul(out.val.timePerToken, Num(3)) = Num(140)
    /\ Mul(out.val.opsToByteRatio, Num(3)) = Num(650)

\* C18: in every result with totalGenerationTime > 0,
\* throughputTokensPerSecond = (promptTokens + outputTokens) /
\* totalGenerationTime x 1000: both kinds of tokens are counted and the unit
\* is tokens per second.
C18_ThroughputCountsAllTokens ==
    (Returned /\ Gt(out.val.totalGenerationTime, Zero)) =>
        out.val.throughputTokensPerSecond =
            Mul(Div(Add(model.promptTokens, model.outputTokens),
                    out.val.totalGenerationTime),
                Num(1000))

\* A result with prompt and output tokens, a finite positive total time and
\* a positive throughput.
C18_PositiveThroughput ==
    /\ Returned
    /\ Gt(model.promptTokens, Zero) /\ Gt(model.outputTokens, Zero)
    /\ IsFinite(out.val.totalGenerationTime) /\ Gt(out.val.totalGenerationTime, Zero)
    /\ Gt(out.val.throughputTokensPerSecond, Zero)

\* 1.2 x modelSizeGB + sequenceLength x batchSize x parameters x 2 x 2 / 1024^3.
ExpectedTotal(modelSizeGB, m) ==
    Add(Mul(Dec(12, -1), modelSizeGB),
        Div(Mul(Mul(Mul(Mul(m.sequenceLength, m.batchSize), m.parameters), Num(2)), Num(2)),
            Num(1024 * 1024 * 1024)))

\* The result carries the shortfall message.
ShortfallReported ==
    /\ Len(out.val.memoryWarningMessage) > 0
    /\ out.val.memoryWarningMessage[1] = "Model requires"

\* C19: the total memory checkMemoryFit compares with the GPU memory is
\* 1.2 x modelSizeGB + sequenceLength x batchSize x parameters x 2 x 2 / 1024^3,
\* the modelSizeGB it returns is the size without the 1.2 overhead, and the
\* total never decreases when batchSize or sequenceLength increases.
C19_TotalMemoryNeeded ==
    Returned =>
        /\ out.val.modelSizeGB = Div(calculateModelSizeBytes(model), Num(1024 * 1024 * 1024))
        /\ Needed = ExpectedTotal(out.val.modelSizeGB, model)
        /\ out.val.memoryUtilization =
              MathMin(Mul(Div(ExpectedTotal(out.val.modelSizeGB, model), gpu.memorySize),
                          Num(100)),
                      Num(999))
        /\ ShortfallReported <=> Gt(ExpectedTotal(out.val.modelSizeGB, model), gpu.memorySize)
        /\ ShortfallReported =>
              out.val.memoryWarningMessage[2] = ToFixed1(ExpectedTotal(out.val.modelSizeGB, model))
        /\ Ge(totalMemoryWithKV([model EXCEPT !.batchSize = Add(@, Num(1))]), Needed)
        /\ Ge(totalMemoryWithKV([model EXCEPT !.sequenceLength = Add(@, Num(2048))]), Needed)

\* A result for a batch of two sequences with a KV cache: the total is above
\* 1.2 x modelSizeGB, and a third sequence needs strictly more.
C19_BatchedKVCache ==
    /\ Returned
    /\ model.batchSize = Num(2)
    /\ Gt(model.sequenceLength, Zero) /\ Gt(model.parameters, Zero)
    /\ Gt(Needed, Mul(Dec(12, -1), out.val.modelSizeGB))
    /\ Gt(totalMemoryWithKV([model EXCEPT !.batchSize = Num(3)]), Needed)

\* The KV cache of one token: parameters x 2 x 2 / 1024^3 GB.
KVCachePerTokenGB == Div(Mul(Mul(model.parameters, Num(2)), Num(2)), Num(1024 * 1024 * 1024))

\* C20: the result of calculatePerformance carries the KV-cache capacity
\* fields of CalculationResults: freeMemoryForKVCacheGB is the GPU memory left
\* after the overhead-adjusted model size, maxKVCacheTokens tokens fit in it,
\* and maxBatchSize sequences of the current length fit in it.
C20_KVCapacityFields ==
    Returned =>
        /\ {"freeMemoryForKVCacheGB", "maxKVCacheTokens", "maxBatchSize"} \subseteq DOMAIN out.val
        /\ out.val.freeMemoryForKVCacheGB =
              Sub(gpu.memorySize, Mul(Dec(12, -1), out.val.modelSizeGB))
        /\ Le(Mul(out.val.maxKVCacheTokens, KVCachePerTokenGB),
              MathMax(out.val.freeMemoryForKVCacheGB, Zero))
        /\ Le(Mul(out.val.maxBatchSize, model.sequenceLength), out.val.maxKVCacheTokens)

\* The fetch of a load came back with a non-2xx response.
NonOk(call) == call.response.kind = "response" /\ ~call.response.ok

\* The fetch of a load came back 2xx with a body that is not JSON, and
\* response.json() has settled.
MalformedJSON(call) ==
    /\ call.pc = "done"
    /\ call.response.kind = "response" /\ call.response.ok
    /\ call.response.body.json = "invalid"

\* C21: each load issues exactly one fetch and never retries; a non-2xx
\* response or a body that is not valid JSON makes the load reject with an
\* error that says what failed and for which model, and no preset is
\* returned.
C21_OneFetchFailFast ==
    \A i \in DOMAIN calls :
        /\ calls[i].fetches = 1
        /\ (NonOk(calls[i]) \/ MalformedJSON(calls[i])) =>
              /\ calls[i].pc = "done"
              /\ calls[i].outcome =
                    Rejected(ErrorOf("Error", <<"Failed to load configuration for model",
                                               calls[i].modelId>>))
              /\ \A j \in DOMAIN loaded : loaded[j].call # i

\* One load met a non-2xx response and another a body that is not JSON.
C21_BothFailures ==
    \E i, j \in DOMAIN calls :
        /\ NonOk(calls[i]) /\ calls[i].outcome.state = "rejected"
        /\ MalformedJSON(calls[j]) /\ calls[j].outcome.state = "rejected"

\* Retrieving or parsing the configuration of a load failed.
RetrievalFailed(call) ==
    /\ call.pc = "done"
    /\ \/ call.response.kind = "rejection"
       \/ NonOk(call)
       \/ MalformedJSON(call)

\* What made the load fail: the rejection of fetch, the status text of the
\* response, or the SyntaxError of response.json().
UnderlyingCause(call) ==
    IF call.response.kind = "rejection" THEN "TypeError: Failed to fetch"
    ELSE IF ~call.response.ok THEN call.response.statusText
    ELSE "SyntaxError"

\* An error carries a text: in its message, or in a cause property.
Carries(err, text) ==
    \/ \E k \in DOMAIN err.message : err.message[k] = text
    \/ "cause" \in DOMAIN err /\ err.cause = text

\* No later load of the search component has started.
LastOfComponent(i) ==
    \A j \in DOMAIN calls : j > i => calls[j].caller # "handleLoadModel"

\* C22: a failure of retrieving or parsing a configuration reaches the
\* caller as an error that carries the model identifier and the underlying
\* cause, and no default-valued preset takes its place: onModelLoad is not
\* called, hubModels gets no entry, and the message is stored in the error
\* state.
C22_FailureCarriesIdAndCause ==
    \A i \in DOMAIN calls :
        RetrievalFailed(calls[i]) =>
            /\ calls[i].outcome.state = "rejected"
            /\ \A j \in DOMAIN loaded : loaded[j].call # i
            /\ \A j \in DOMAIN hubModels :
                  \E c \in DOMAIN calls :
                      /\ calls[c].outcome.state = "fulfilled"
                      /\ calls[c].modelId = hubModels[j].name
            /\ (calls[i].caller = "handleLoadModel" /\ LastOfComponent(i)) =>
                  error = calls[i].outcome.reason.message
            /\ calls[i].caller = "addModelFromHub" => hookError # "null"
            /\ Carries(calls[i].outcome.reason, calls[i].modelId)
            /\ Carries(calls[i].outcome.reason, UnderlyingCause(calls[i]))

\* A finite number greater than 0.
PositiveNumber(v) == v.k = "fin" /\ v.n > 0

\* C23: every ModelPreset configToModelPreset hands to the engine is
\* complete and well-formed: whatever the configuration (absent, zero or
\* non-numeric properties included), parameters, sequenceLength,
\* headDimension, nLayers and nHeads are finite numbers greater than 0.
C23_PresetWellFormed ==
    out.fn = "configToModelPreset" =>
        /\ PositiveNumber(out.val.parameters)
        /\ PositiveNumber(out.val.sequenceLength)
        /\ PositiveNumber(out.val.headDimension)
        /\ PositiveNumber(out.val.nLayers)
        /\ PositiveNumber(out.val.nHeads)

\* C24: in AIModelCalculator, after any sequence of GPU and model changes,
\* once the pending effect has run the displayed results are
\* calculatePerformance(selectedGPU, modelSpecs) of the current inputs, and
\* a pending effect always runs: no stale result remains.
C24_ResultsFollowInputs ==
    /\ [](~effectPending => results = calculatePerformance(selectedGPU, modelSpecs))
    /\ effectPending ~> ~effectPending

\* The results on display were recomputed after an edit of the model and
\* after a change of GPU.
C24_Recomputed ==
    /\ ~effectPending
    /\ event.handler = "handleInputChange"
    /\ selectedGPU # COMMON_GPUS[2]
    /\ modelSpecs # DEFAULT_MODEL
    /\ results = calculatePerformance(selectedGPU, modelSpecs)
    /\ results # calculatePerformance(COMMON_GPUS[2], DEFAULT_MODEL)

\* No two entries of a list of presets have the same name.
DistinctNames(models) ==
    \A i, j \in DOMAIN models : models[i].name = models[j].name => i = j

\* The first list is the beginning of the second, entry for entry.
Keeps(before, after) ==
    /\ Len(before) <= Len(after)
    /\ \A i \in DOMAIN before : after[i] = before[i]

\* C25: after any number of addModelFromHub calls, concurrent calls for the
\* same model id completing in any order included, hubModels has no two
\* entries with the same name, and an entry once added is never removed or
\* replaced.
C25_HubModelsDistinctAndKept ==
    [][DistinctNames(hubModels') /\ Keeps(hubModels, hubModels')]_vars

\* Two calls of addModelFromHub for the same model were in flight together,
\* the second completed first and both succeeded; hubModels holds the model
\* once.
C25_SameModelTwice ==
    /\ Len(calls) = 2
    /\ calls[1].caller = "addModelFromHub" /\ calls[2].caller = "addModelFromHub"
    /\ calls[1].modelId = calls[2].modelId
    /\ calls[1].outcome.state = "fulfilled" /\ calls[2].outcome.state = "fulfilled"
    /\ calls[2].settled = 1 /\ calls[1].settled = 2
    /\ Len(hubModels) = 1

\* When the change of the input that set a timeout happened.
ChangedAt(i) == timers[i].due - DebounceMs

\* The change is the last of its burst: no change followed it within the
\* delay.
LastOfBurst(i) == i < Len(timers) => ChangedAt(i + 1) - ChangedAt(i) >= DebounceMs

\* C26: the search is debounced: every call of searchModels is for the
\* query of a change that no other change followed within 500 ms, it is
\* made 500 ms after that change, and no change has two calls.
C26_SearchDebounced ==
    /\ \A i \in DOMAIN searches :
          /\ LastOfBurst(searches[i].change)
          /\ searches[i].query = timers[searches[i].change].query
          /\ searches[i].at = ChangedAt(searches[i].change) + DebounceMs
    /\ \A i, j \in DOMAIN searches : searches[i].change = searches[j].change => i = j

\* Every timeout has fired and every search is done.
Quiet == Waiting = {} /\ \A i \in DOMAIN searches : searches[i].pc = "done"

\* Every change came at least the delay after the one before it.
Spaced == \A i \in DOMAIN timers : i > 1 => ChangedAt(i) - ChangedAt(i - 1) >= DebounceMs

\* Every search was answered with the array of its query.
Answered == \A i \in DOMAIN searches : searches[i].response.body.json = "array"

\* C27: once every timeout has fired and every search is done,
\* searchResults are the results of the query in the input, and empty when
\* it is blank, in whatever order the responses arrived; stated for
\* changes at least 500 ms apart whose searches were all answered.
C27_ResultsOfLatestQuery ==
    (Quiet /\ Spaced /\ Answered) =>
        searchResults = IF trim(searchQuery) = <<>> THEN <<>> ELSE ResultsFor(searchQuery)

\* The handleLoadModel calls whose load is in flight, and those that are done.
InFlight == {i \in DOMAIN calls : calls[i].caller = "handleLoadModel" /\ calls[i].pc # "done"}

Finished == {i \in DOMAIN calls : calls[i].caller = "handleLoadModel" /\ calls[i].pc = "done"}

\* How many times onModelLoad was called by a handleLoadModel call.
Handed(i) == Cardinality({k \in DOMAIN loaded : loaded[k].call = i})

\* C28: isLoading is true exactly while a handleLoadModel call has its load
\* in flight, from before the fetch on; onModelLoad has been called once by
\* every call whose load succeeded and by no other call; and isLoading,
\* once true, becomes false again, whether the load succeeds or fails.
C28_LoadingWhileInFlight ==
    /\ [](isLoading <=> InFlight # {})
    /\ [](\A i \in DOMAIN calls :
            Handed(i) = IF i \in Finished /\ calls[i].outcome.state = "fulfilled" THEN 1 ELSE 0)
    /\ [](\A k \in DOMAIN loaded : loaded[k].call \in Finished)
    /\ (isLoading ~> ~isLoading)

\* A handleLoadModel call failed and a later one succeeded: onModelLoad was
\* called once, by the second, and isLoading is false again.
C28_FailedThenLoaded ==
    /\ Len(calls) = 2
    /\ calls[1].caller = "handleLoadModel" /\ calls[1].outcome.state = "rejected"
    /\ calls[2].caller = "handleLoadModel" /\ calls[2].outcome.state = "fulfilled"
    /\ Len(loaded) = 1 /\ loaded[1].call = 2
    /\ ~isLoading

\* The GPU is an entry of COMMON_GPUS.
Preset(g) == \E i \in DOMAIN COMMON_GPUS : g = COMMON_GPUS[i]

ModelFields == DOMAIN DEFAULT_MODEL

PresetFields == {"parameters", "sequenceLength", "headDimension", "nLayers", "nHeads"}

\* The fields in which two model specifications differ.
Changed(before, after) == {f \in ModelFields : before[f] # after[f]}

\* The step took the preset fields from entry k of COMMON_MODELS when the
\* entry exists and has parameters above 0, and changed nothing otherwise.
PresetStep(k, before, after) ==
    IF k # 0 /\ Gt(COMMON_MODELS[k].parameters, Zero)
    THEN /\ Changed(before, after) \subseteq PresetFields
         /\ \A f \in PresetFields : after[f] = COMMON_MODELS[k][f]
    ELSE after = before

\* C30: a step of ModelInputs.handlePresetChange changes only parameters,
\* sequenceLength, headDimension, nLayers and nHeads, to the values of the
\* preset, and nothing for 'Custom' or an unknown name; a step of
\* handleInputChange changes only its field, to its value.
C30_ModelInputsFrame ==
    [][/\ event'.handler = "ModelInputs.handlePresetChange" =>
             PresetStep(FindModel(event'.arg[1]), modelSpecs, modelSpecs')
       /\ event'.handler = "handleInputChange" =>
             /\ Changed(modelSpecs, modelSpecs') \subseteq {event'.arg[1]}
             /\ modelSpecs'[event'.arg[1]] = event'.arg[2]]_vars

\* The preset Llama 2 13B has just been selected after batchSize was set to
\* 2 and quantization to INT4: the preset's parameters with the edited
\* batchSize and quantization.
C30_PresetAfterEdits ==
    /\ event.handler = "ModelInputs.handlePresetChange"
    /\ event.arg = <<"Llama 2 13B">>
    /\ effectPending
    /\ modelSpecs.parameters = Num(13) /\ modelSpecs.nLayers = Num(40)
    /\ modelSpecs.batchSize = Num(2) /\ modelSpecs.quantization = "INT4"
    /\ modelSpecs.promptTokens = Num(350)

====
